---- MODULE Spec2Model ----
(***************************************************************************)
(* A model of the goboot pubsub Service (package pubsub): the channel      *)
(* registry built by the WithChannel / WithDeadLetter options, the         *)
(* RichMessage disposition helpers RetryableError and DeadLetter, and the  *)
(* helper trimLeftBytes.                                                   *)
(*                                                                         *)
(* Go strings that the code inspects byte by byte (attribute values, the   *)
(* cause text) are sequences of bytes 0..255.  Names that the code only    *)
(* compares or uses as map keys (channel IDs, attribute keys, Data) are    *)
(* TLA+ strings.  Durations and times are whole seconds.                    *)
(***************************************************************************)
EXTENDS Integers, Sequences, FiniteSets, TLC

VARIABLES
    trim,       \* one call of trimLeftBytes: its input, position and result
    svc,        \* the *Service: Channels, DeadLetterChannel, the Channel objects
    reg,        \* the option list being applied by Configure
    now,        \* the wall clock, time.Now()
    msgs,       \* the RichMessages handed to handlers, one per delivery slot
    client,     \* the embedded *gpubsub.Client and the topics and subscriptions behind it
    oper,       \* the Service method that ran last: its arguments, calls and result
    xlate,      \* one call of translateError: its arguments and result
    runs,       \* the calls of CreateAll in progress, one per caller
    recv,       \* the receive loop of one call of Receive or ReceiveNr
    es,         \* the *Elasticsearch: its Migrations, the migrations index, one Migrate
    pg,         \* the *Postgres: its config and the connect loop of Configure
    app         \* the *AppEnv: its Services and the calls it made on them

vars == <<trim, svc, reg, now, msgs, client, oper, xlate, runs, recv, es, pg, app>>

(***************************************************************************)
(* Bytes and UTF-8 (unicode/utf8).                                         *)
(***************************************************************************)

\* utf8.RuneStart: b&0xC0 != 0x80
RuneStart(b) == (b \div 64) # 2

\* Number of bytes of the encoding that starts with b; 0 when b starts none.
RuneWidth(b) ==
    IF b < 128 THEN 1
    ELSE IF b >= 194 /\ b <= 223 THEN 2
    ELSE IF b >= 224 /\ b <= 239 THEN 3
    ELSE IF b >= 240 /\ b <= 244 THEN 4
    ELSE 0

\* The accepted range of the second byte after first byte b (no overlong
\* forms, no surrogates, nothing above U+10FFFF).
SecondByteOK(b, c) ==
    IF b = 224 THEN c >= 160 /\ c <= 191
    ELSE IF b = 237 THEN c >= 128 /\ c <= 159
    ELSE IF b = 240 THEN c >= 144 /\ c <= 191
    ELSE IF b = 244 THEN c >= 128 /\ c <= 143
    ELSE c >= 128 /\ c <= 191

\* A well-formed encoding of one code point starts at position i of s.
RuneAt(s, i) ==
    LET w == RuneWidth(s[i]) IN
    /\ w > 0
    /\ i + w - 1 <= Len(s)
    /\ w >= 2 => SecondByteOK(s[i], s[i + 1])
    /\ \A j \in 2..(w - 1) : ~RuneStart(s[i + j])

\* utf8.ValidString: s is a concatenation of well-formed encodings.  Every
\* non-continuation byte starts a well-formed encoding and every
\* continuation byte lies inside the encoding started at most 3 bytes back.
ValidString(s) ==
    \A i \in 1..Len(s) :
        IF RuneStart(s[i])
        THEN RuneAt(s, i)
        ELSE \E k \in 1..3 :
                /\ i - k >= 1
                /\ RuneStart(s[i - k])
                /\ RuneWidth(s[i - k]) > k
                /\ \A j \in 1..(k - 1) : ~RuneStart(s[i - j])

RECURSIVE Flatten(_)
\* The concatenation of a sequence of byte strings.
Flatten(ss) == IF ss = <<>> THEN <<>> ELSE Head(ss) \o Flatten(Tail(ss))

(***************************************************************************)
(* trimLeftBytes                                                           *)
(***************************************************************************)

RECURSIVE lastRuneLoop(_, _)
\* for lastRune > 0 && !utf8.RuneStart(str[lastRune]) { lastRune-- }
\* (Go indexes from 0: str[lastRune] is the byte at position lastRune + 1.)
lastRuneLoop(str, lastRune) ==
    IF lastRune > 0 /\ ~RuneStart(str[lastRune + 1])
    THEN lastRuneLoop(str, lastRune - 1)
    ELSE lastRune

\* The call reaches str[lastRune] with lastRune = maxBytes = len(str): an
\* index out of range, on which the Go runtime panics.
trimLeftBytesPanics(str, maxBytes) ==
    /\ ~(Len(str) < maxBytes)
    /\ ~ValidString(SubSeq(str, 1, maxBytes))
    /\ maxBytes > 0
    /\ maxBytes + 1 > Len(str)

\* Faulty variant: cuts at the byte limit without backing up to a rune start.
trimLeftBytes_cutAnywhere(str, maxBytes) ==
    IF Len(str) < maxBytes THEN str ELSE SubSeq(str, 1, maxBytes)

\* The value trimLeftBytes returns when it does not panic.
trimLeftBytes(str, maxBytes) ==
    IF Len(str) < maxBytes
    THEN str
    ELSE LET res == SubSeq(str, 1, maxBytes) IN
         IF ValidString(res)
         THEN res
         ELSE SubSeq(res, 1, lastRuneLoop(str, maxBytes))

(***************************************************************************)
(* strconv.ParseInt(val, 10, 64) and strconv.FormatInt(i, 10).  An int64   *)
(* is [neg, mag]: its sign and the decimal digits of its magnitude without *)
(* leading zeros (<<0>> for zero), so that the 64-bit range is exact.      *)
(***************************************************************************)

IsDigit(b) == b >= 48 /\ b <= 57

RECURSIVE StripZeros(_)
StripZeros(d) ==
    IF Len(d) > 1 /\ d[1] = 0 THEN StripZeros(Tail(d)) ELSE d

\* a < b for two magnitudes without leading zeros
DigitsLess(a, b) ==
    \/ Len(a) < Len(b)
    \/ /\ Len(a) = Len(b)
       /\ \E i \in 1..Len(a) :
            /\ a[i] < b[i]
            /\ \A j \in 1..(i - 1) : a[j] = b[j]

\* 2^63 - 1 and 2^63
MaxInt64Digits == <<9,2,2,3,3,7,2,0,3,6,8,5,4,7,7,5,8,0,7>>
MinInt64Digits == <<9,2,2,3,3,7,2,0,3,6,8,5,4,7,7,5,8,0,8>>

\* strconv.ParseInt(val, 10, 64): [ok, neg, mag]; ok = FALSE is err != nil
\* (a syntax error or a value out of the int64 range).
ParseInt(val) ==
    LET signed == val # <<>> /\ val[1] \in {43, 45}
        body   == IF signed THEN Tail(val) ELSE val
        wellFormed == body # <<>> /\ \A i \in 1..Len(body) : IsDigit(body[i])
        mag    == StripZeros([i \in 1..Len(body) |-> body[i] - 48])
        neg    == signed /\ val[1] = 45
        inRange == IF neg THEN ~DigitsLess(MinInt64Digits, mag)
                          ELSE ~DigitsLess(MaxInt64Digits, mag)
    IN  IF wellFormed /\ inRange
        THEN [ok |-> TRUE, neg |-> neg /\ mag # <<0>>, mag |-> mag]
        ELSE [ok |-> FALSE, neg |-> FALSE, mag |-> <<0>>]

RECURSIVE IncDigits(_)
IncDigits(d) ==
    IF d = <<>> THEN <<1>>
    ELSE IF d[Len(d)] = 9
         THEN IncDigits(SubSeq(d, 1, Len(d) - 1)) \o <<0>>
         ELSE SubSeq(d, 1, Len(d) - 1) \o <<d[Len(d)] + 1>>

RECURSIVE DecDigits(_)
DecDigits(d) ==
    IF d[Len(d)] = 0
    THEN DecDigits(SubSeq(d, 1, Len(d) - 1)) \o <<9>>
    ELSE SubSeq(d, 1, Len(d) - 1) \o <<d[Len(d)] - 1>>

\* i + 1 on int64: the largest value wraps around to the smallest.
PlusOne(i) ==
    IF i.neg
    THEN LET m == StripZeros(DecDigits(i.mag)) IN
         [ok |-> TRUE, neg |-> m # <<0>>, mag |-> m]
    ELSE IF i.mag = MaxInt64Digits
         THEN [ok |-> TRUE, neg |-> TRUE, mag |-> MinInt64Digits]
         ELSE [ok |-> TRUE, neg |-> FALSE, mag |-> IncDigits(i.mag)]

\* strconv.FormatInt(i, 10)
FormatInt(i) ==
    (IF i.neg THEN <<45>> ELSE <<>>) \o [k \in 1..Len(i.mag) |-> i.mag[k] + 48]

(***************************************************************************)
(* The channel registry: Service.Channels, Service.DeadLetterChannel and   *)
(* the Channel objects they point to.  svc.mem maps a pointer to the       *)
(* Channel it points to; the options receive pointers and write through    *)
(* them.                                                                   *)
(***************************************************************************)

Nil == 0

defaultDeadLetterName == "dead-letter"

\* time.Minute * 2, in seconds
DefaultMaxRetryAge == 120

EmptyMap == [k \in {} |-> <<>>]

\* m[k] = v on a Go map
SetKey(m, k, v) == [x \in (DOMAIN m) \cup {k} |-> IF x = k THEN v ELSE m[x]]

\* NewPubSubService: an empty registry; chans are the Channel values the
\* caller has built for the options.
NewPubSubService(chans) ==
    [mem |-> chans, Channels |-> EmptyMap, DeadLetterChannel |-> Nil]

addChannel(s, ch) ==
    [s EXCEPT !.Channels = SetKey(s.Channels, s.mem[ch].ID, ch)]

WithChannel(s, ch) ==
    addChannel(
        IF s.mem[ch].MaxRetryAge = 0
        THEN [s EXCEPT !.mem[ch].MaxRetryAge = DefaultMaxRetryAge]
        ELSE s,
        ch)

WithDeadLetter(s, ch) ==
    LET s1 == IF s.mem[ch].ID = ""
              THEN [s EXCEPT !.mem[ch].ID = defaultDeadLetterName]
              ELSE s
    IN  [addChannel(s1, ch) EXCEPT !.DeadLetterChannel = ch]

\* option(s), for one element of s.options
ApplyOption(s, o) ==
    IF o.opt = "WithChannel" THEN WithChannel(s, o.ch) ELSE WithDeadLetter(s, o.ch)

RECURSIVE ConfigureFrom(_, _)
ConfigureFrom(s, options) ==
    IF options = <<>> THEN s
    ELSE ConfigureFrom(ApplyOption(s, Head(options)), Tail(options))

\* The registry once Service.Configure has run every option.
Configure(chans, options) == ConfigureFrom(NewPubSubService(chans), options)

\* Service.Channel
Channel(s, channelID) ==
    IF channelID \in DOMAIN s.Channels THEN s.Channels[channelID] ELSE Nil

(***************************************************************************)
(* The transport: the gpubsub.Client embedded in the Service.  topics is   *)
(* the set of topics that exist, subs maps every subscription that exists  *)
(* to the topic it was created on and the messages waiting on it, in the   *)
(* order they were published.  A call on a closed client changes nothing   *)
(* and fails with the gRPC status Canceled.                                *)
(***************************************************************************)

\* gpubsub.NewClient
NewClient == [closed |-> FALSE, topics |-> {}, subs |-> EmptyMap]

(***************************************************************************)
(* The services the model runs: the channels and options of the test       *)
(* fixture newPubSubEmulatorService, without and with a dead-letter        *)
(* channel.                                                                *)
(***************************************************************************)

topicID           == <<116,101,115,116,45,116,111,112,105,99>>    \* "test-topic"
subID             == <<116,101,115,116,45,115,117,98>>            \* "test-sub"
topicID2          == <<116,101,115,116,45,116,111,112,105,99,50>> \* "test-topic2"
deadLetterTopicID == <<100,108,45,116,111,112,105,99>>            \* "dl-topic"
deadLetterSubID   == <<100,108,45,115,117,98>>                    \* "dl-sub"

NewChannel(id, topic, sub, age) ==
    [ID |-> id, TopicID |-> topic, SubscriptionID |-> sub, MaxRetryAge |-> age]

Opt(name, ch) == [opt |-> name, ch |-> ch]

FixtureChannels ==
    << NewChannel("test-channel", topicID, subID, 0),
       NewChannel("without-subscription", topicID2, <<>>, 0),
       NewChannel("", deadLetterTopicID, deadLetterSubID, 0) >>

Programs ==
    { [chans |-> FixtureChannels,
       options |-> <<Opt("WithChannel", 1), Opt("WithChannel", 2)>>],
      [chans |-> FixtureChannels,
       options |-> <<Opt("WithChannel", 1), Opt("WithChannel", 2),
                     Opt("WithDeadLetter", 3)>>] }

(***************************************************************************)
(* Messages, causes and errors.                                            *)
(***************************************************************************)

\* max attribute length is 1024 bytes
MaxAttrBytes == 1024

\* The most disposition calls a handler makes on one RichMessage.
MaxCalls == 2

\* The clock runs from 0 to MaxNow.
MaxNow == 1

Slots == {"m1"}

Pad(n) == [i \in 1..n |-> 97]
RuneNichi == <<230, 151, 165>>     \* U+65E5
RuneHon   == <<230, 156, 172>>     \* U+672C
RuneGo    == <<232, 170, 158>>     \* U+8A9E

Causes == {"errTest", "straddle", "exact", "exactInvalid", "shortInvalid"}

\* cause.Error() of the causes handlers pass
CauseText ==
    [c \in Causes |->
        CASE c = "errTest"      -> <<116,101,115,116,32,101,114,114,111,114>>
          [] c = "straddle"     -> Pad(MaxAttrBytes - 2) \o RuneNichi \o RuneHon
          [] c = "exact"        -> Pad(MaxAttrBytes - 3) \o RuneNichi
          [] c = "exactInvalid" -> Pad(MaxAttrBytes - 1) \o <<255>>
          [] c = "shortInvalid" -> <<97, 255>>]

\* trimLeftBytes(cause.Error(), 1024) for each cause: whether the call
\* panics, and the value it returns otherwise.
ErrorAttributePanics ==
    [c \in Causes |-> trimLeftBytesPanics(CauseText[c], MaxAttrBytes)]

ErrorAttribute ==
    [c \in Causes |->
        IF ErrorAttributePanics[c] THEN <<>>
        ELSE trimLeftBytes(CauseText[c], MaxAttrBytes)]

\* Ages (now - PublishTime, in seconds) of a message when it is delivered.
Ages == {0, 120, 121}

MessageIDs == { <<49, 48, 49>> }    \* "101"

ev1 == <<101, 118, 49>>

\* deadLetterCount values a delivered message may carry
DeadLetterCounts ==
    { <<49>>,                  \* "1"
      <<48>>,                  \* "0"
      <<45, 53>>,              \* "-5"
      <<45, 49>>,              \* "-1"
      <<43, 55>>,              \* "+7"
      <<48, 48, 57>>,          \* "009"
      <<97, 98, 99>>,          \* "abc"
      <<>>,                    \* ""
      [k \in 1..19 |-> MaxInt64Digits[k] + 48],   \* "9223372036854775807"
      [k \in 1..19 |-> MinInt64Digits[k] + 48] }  \* "9223372036854775808"

\* Attributes of the delivered messages: none, a published event, an event
\* carrying a deadLetterCount, and a message that was dead-lettered before.
AttributeSets ==
    { EmptyMap, [event |-> ev1] }
    \cup { [event |-> ev1, deadLetterCount |-> d] : d \in DeadLetterCounts }
    \cup { [event |-> ev1, deadLetterCount |-> <<49>>,
            originalMessageID |-> <<49, 48, 48>>,
            originalTopicID |-> topicID,
            originalSubscriptionID |-> subID,
            error |-> <<111, 108, 100>>] }

NoError == [text |-> "", cause |-> ""]
ErrNoDeadLetter == [text |-> "no deadletter channel configured", cause |-> ""]
ErrDeadLetterPublish(err) ==
    [text |-> "failed to sent message to dead letter topic", cause |-> err]

\* Errors of the transport's Publish(...).Get(ctx)
PublishErrors == {"rpc error: code = Unavailable"}

\* The error of a call on a client that has been closed
ClosingError == "rpc error: code = Canceled"

NoCall ==
    [op |-> "", cause |-> "", age |-> 0, acks0 |-> 0, nacks0 |-> 0, pubs0 |-> 0,
     published |-> "", closed |-> FALSE, done |-> FALSE, ret |-> NoError]

NoOut == [sent |-> FALSE, topic |-> <<>>, Data |-> "", Attributes |-> EmptyMap]

NoMessage ==
    [st |-> "none", ID |-> <<>>, Data |-> "", Attributes |-> EmptyMap,
     PublishTime |-> 0, Channel |-> Nil,
     acks |-> 0, nacks |-> 0, pubs |-> 0, calls |-> 0,
     call |-> NoCall, out |-> NoOut]

\* The arguments of a Service method; a method leaves the ones it does not
\* take at their zero value.
NoArgs == [channel |-> "", topicID |-> <<>>, subID |-> <<>>, eventName |-> <<>>,
           payload |-> [kind |-> "", val |-> <<>>], nrOfMessages |-> 0,
           faults |-> {}]

\* No Service method has run.  log is the sequence of calls the method made
\* on the client, handled the number of times Receive invoked its callback,
\* res the channel or the number of messages returned, err the error
\* returned and logged the error written to the log.
NoOp == [name |-> "", args |-> NoArgs, log |-> <<>>, handled |-> 0,
         res |-> Nil, err |-> NoError, logged |-> ""]

\* No call of translateError, no call of CreateAll in progress, no receive
\* loop.
NoTranslate == [pc |-> "", err |-> "", wrapMsg |-> "", id |-> <<>>, res |-> NoError]
NoRuns == <<>>
NoReceive == [pc |-> ""]

\* No Elasticsearch, Postgres or AppEnv has been made.
NoElasticsearch == [pc |-> ""]
NoPostgres == [pc |-> ""]
NoAppEnv == [pc |-> ""]

(***************************************************************************)
(* RichMessage.DeadLetter and RichMessage.RetryableError, as functions of  *)
(* the registry s and the message record msg.                              *)
(***************************************************************************)

\* Faulty variant: starts from an empty map instead of a copy of msg.Attributes.
newMap_withoutCopy(s, msg, cause) ==
    [originalMessageID |-> msg.ID,
     originalTopicID |-> s.mem[msg.Channel].TopicID,
     originalSubscriptionID |-> s.mem[msg.Channel].SubscriptionID,
     error |-> ErrorAttribute[cause],
     deadLetterCount |-> <<49>>]

\* The attributes DeadLetter builds for the copy it publishes.
newMap(s, msg, cause) ==
    LET a1 == SetKey(msg.Attributes, "originalMessageID", msg.ID)
        a2 == SetKey(a1, "originalTopicID", s.mem[msg.Channel].TopicID)
        a3 == SetKey(a2, "originalSubscriptionID", s.mem[msg.Channel].SubscriptionID)
        a4 == SetKey(a3, "error", ErrorAttribute[cause])
    IN  IF "deadLetterCount" \in DOMAIN a4
        THEN LET i == ParseInt(a4["deadLetterCount"]) IN
             IF i.ok
             THEN SetKey(a4, "deadLetterCount", FormatInt(PlusOne(i)))
             ELSE a4
        ELSE SetKey(a4, "deadLetterCount", <<49>>)

\* The record of a call that starts on msg.
StartCall(msg, op, c, t) ==
    [op |-> op, cause |-> c, age |-> t - msg.PublishTime,
     acks0 |-> msg.acks, nacks0 |-> msg.nacks, pubs0 |-> msg.pubs,
     published |-> "", closed |-> FALSE, done |-> FALSE, ret |-> NoError]

Return(msg, err) == [msg EXCEPT !.call.done = TRUE, !.call.ret = err]

\* Faulty variant: without a dead-letter channel the message is NACK'ed before the
\* error is returned.
DeadLetterPublish_nacksUnconfigured(s, msg) ==
    IF s.DeadLetterChannel = Nil
    THEN Return([msg EXCEPT !.nacks = @ + 1], ErrNoDeadLetter)
    ELSE IF ErrorAttributePanics[msg.call.cause]
    THEN [msg EXCEPT !.st = "panicked"]
    ELSE [msg EXCEPT
            !.st = "publishing",
            !.pubs = @ + 1,
            !.out = [sent |-> TRUE,
                     topic |-> s.mem[s.DeadLetterChannel].TopicID,
                     Data |-> msg.Data,
                     Attributes |-> newMap(s, msg, msg.call.cause)]]

\* Faulty variant: the attributes are written into msg.Attributes itself and
\* that map is published.
DeadLetterPublish_writesAttributes(s, msg) ==
    IF s.DeadLetterChannel = Nil
    THEN Return(msg, ErrNoDeadLetter)
    ELSE IF ErrorAttributePanics[msg.call.cause]
    THEN [msg EXCEPT !.st = "panicked"]
    ELSE [msg EXCEPT
            !.st = "publishing",
            !.pubs = @ + 1,
            !.Attributes = newMap(s, msg, msg.call.cause),
            !.out = [sent |-> TRUE,
                     topic |-> s.mem[s.DeadLetterChannel].TopicID,
                     Data |-> msg.Data,
                     Attributes |-> newMap(s, msg, msg.call.cause)]]

\* DeadLetter up to the point where it waits for the publish result.
DeadLetterPublish(s, msg) ==
    IF s.DeadLetterChannel = Nil
    THEN Return(msg, ErrNoDeadLetter)
    ELSE IF ErrorAttributePanics[msg.call.cause]
    THEN [msg EXCEPT !.st = "panicked"]
    ELSE [msg EXCEPT
            !.st = "publishing",
            !.pubs = @ + 1,
            !.out = [sent |-> TRUE,
                     topic |-> s.mem[s.DeadLetterChannel].TopicID,
                     Data |-> msg.Data,
                     Attributes |-> newMap(s, msg, msg.call.cause)]]

\* Faulty variant: the original is ACK'ed whatever the publish result.
DeadLetterResolve_alwaysAcks(msg, err) ==
    Return([msg EXCEPT !.st = "handler", !.out = NoOut, !.acks = @ + 1],
           IF err # "" THEN ErrDeadLetterPublish(err) ELSE NoError)

\* DeadLetter from the publish result err ("" when it succeeded) on.
DeadLetterResolve(msg, err) ==
    IF err # ""
    THEN Return([msg EXCEPT !.st = "handler", !.out = NoOut, !.nacks = @ + 1],
                ErrDeadLetterPublish(err))
    ELSE Return([msg EXCEPT !.st = "handler", !.out = NoOut, !.acks = @ + 1],
                NoError)

\* Faulty variant: a message as old as MaxRetryAge counts as expired.
MaxRetryAgeExpired_atLimit(s, msg, t) ==
    t - msg.PublishTime >= s.mem[msg.Channel].MaxRetryAge

\* time.Since(msg.PublishTime) > msg.Channel.MaxRetryAge
MaxRetryAgeExpired(s, msg, t) ==
    t - msg.PublishTime > s.mem[msg.Channel].MaxRetryAge

RetryableErrorCall(s, msg, t) ==
    IF MaxRetryAgeExpired(s, msg, t)
    THEN DeadLetterPublish(s, msg)
    ELSE Return([msg EXCEPT !.nacks = @ + 1], NoError)

(***************************************************************************)
(* Actions of the message path.                                            *)
(***************************************************************************)

\* Channels a subscription delivers on.
Subscribed(s) ==
    { s.Channels[id] : id \in { x \in DOMAIN s.Channels :
                                  s.mem[s.Channels[x]].SubscriptionID # <<>> } }

Delivered(ch, id, attrs, age, acked) ==
    [NoMessage EXCEPT
        !.st = "handler", !.ID = id, !.Data = "test message",
        !.Attributes = attrs, !.PublishTime = now - age, !.Channel = ch,
        !.acks = acked]

\* The callback of Service.Receive hands a RichMessage to the handler; the
\* message is one of ids, with attributes out of attrSets and an age out of
\* ages.
ReceiveFrom(m, ids, attrSets, ages) ==
    /\ msgs[m].st = "none"
    /\ \E ch \in Subscribed(svc), id \in ids, attrs \in attrSets, age \in ages :
          msgs' = [msgs EXCEPT ![m] = Delivered(ch, id, attrs, age, 0)]
    /\ UNCHANGED <<es, pg, app, xlate, runs, recv, client, oper, trim, svc, reg, now>>

Receive(m) == ReceiveFrom(m, MessageIDs, AttributeSets, Ages)

\* The callback of Service.ReceiveNr acknowledges the message and keeps it.
ReceiveNrFrom(m, ids, attrSets, ages) ==
    /\ msgs[m].st = "none"
    /\ \E ch \in Subscribed(svc), id \in ids, attrs \in attrSets, age \in ages :
          msgs' = [msgs EXCEPT ![m] = Delivered(ch, id, attrs, age, 1)]
    /\ UNCHANGED <<es, pg, app, xlate, runs, recv, client, oper, trim, svc, reg, now>>

ReceiveNr(m) == ReceiveNrFrom(m, MessageIDs, AttributeSets, Ages)

CanCall(m) == msgs[m].st = "handler" /\ msgs[m].calls < MaxCalls

Ack(m) ==
    /\ CanCall(m)
    /\ msgs' = [msgs EXCEPT ![m] =
            Return([@ EXCEPT !.calls = @ + 1, !.acks = @ + 1,
                             !.call = StartCall(msgs[m], "Ack", "", now)],
                   NoError)]
    /\ UNCHANGED <<es, pg, app, xlate, runs, recv, client, oper, trim, svc, reg, now>>

Nack(m) ==
    /\ CanCall(m)
    /\ msgs' = [msgs EXCEPT ![m] =
            Return([@ EXCEPT !.calls = @ + 1, !.nacks = @ + 1,
                             !.call = StartCall(msgs[m], "Nack", "", now)],
                   NoError)]
    /\ UNCHANGED <<es, pg, app, xlate, runs, recv, client, oper, trim, svc, reg, now>>

\* DeadLetter(ctx, cause) with a cause out of causes
DeadLetterWith(m, causes) ==
    /\ CanCall(m)
    /\ \E c \in causes :
          msgs' = [msgs EXCEPT ![m] =
            DeadLetterPublish(svc,
                [@ EXCEPT !.calls = @ + 1,
                          !.call = StartCall(msgs[m], "DeadLetter", c, now)])]
    /\ UNCHANGED <<es, pg, app, xlate, runs, recv, client, oper, trim, svc, reg, now>>

DeadLetter(m) == DeadLetterWith(m, Causes)

\* RetryableError(ctx, cause) with a cause out of causes
RetryableErrorWith(m, causes) ==
    /\ CanCall(m)
    /\ \E c \in causes :
          msgs' = [msgs EXCEPT ![m] =
            RetryableErrorCall(svc,
                [@ EXCEPT !.calls = @ + 1,
                          !.call = StartCall(msgs[m], "RetryableError", c, now)],
                now)]
    /\ UNCHANGED <<es, pg, app, xlate, runs, recv, client, oper, trim, svc, reg, now>>

RetryableError(m) == RetryableErrorWith(m, Causes)

\* topic.Publish(...).Get(ctx) returns, and DeadLetter with it.  On a closed
\* client the result is the Canceled error of the connection.
DeadLetterPublished(m) ==
    /\ msgs[m].st = "publishing"
    /\ \E err \in IF client.closed THEN {ClosingError} ELSE PublishErrors \cup {""} :
          msgs' = [msgs EXCEPT ![m] =
            DeadLetterResolve(
                [@ EXCEPT !.call.published = IF err = "" THEN "ok" ELSE "failed",
                          !.call.closed = client.closed],
                err)]
    /\ UNCHANGED <<es, pg, app, xlate, runs, recv, client, oper, trim, svc, reg, now>>

\* The handler returns; the RichMessage is dropped.
HandlerReturn(m) ==
    /\ msgs[m].st = "handler"
    /\ msgs' = [msgs EXCEPT ![m] = NoMessage]
    /\ UNCHANGED <<es, pg, app, xlate, runs, recv, client, oper, trim, svc, reg, now>>

Tick ==
    /\ now < MaxNow
    /\ now' = now + 1
    /\ UNCHANGED <<es, pg, app, xlate, runs, recv, client, oper, trim, svc, reg, msgs>>

NoTrim == [kind |-> "", runes |-> <<>>, str |-> <<>>, maxBytes |-> 0,
           pc |-> "", res |-> <<>>]

Init ==
    /\ trim = NoTrim
    /\ \E p \in Programs :
          /\ svc = Configure(p.chans, p.options)
          /\ reg = [chans |-> p.chans, options |-> p.options,
                    next |-> Len(p.options) + 1]
    /\ now = 0
    /\ msgs = [m \in Slots |-> NoMessage]
    /\ client = NewClient
    /\ oper = NoOp
    /\ xlate = NoTranslate
    /\ runs = NoRuns
    /\ recv = NoReceive
    /\ es = NoElasticsearch
    /\ pg = NoPostgres
    /\ app = NoAppEnv

Next ==
    \/ \E m \in Slots : Receive(m)
    \/ \E m \in Slots : ReceiveNr(m)
    \/ \E m \in Slots : Ack(m)
    \/ \E m \in Slots : Nack(m)
    \/ \E m \in Slots : DeadLetter(m)
    \/ \E m \in Slots : RetryableError(m)
    \/ \E m \in Slots : DeadLetterPublished(m)
    \/ \E m \in Slots : HandlerReturn(m)
    \/ Tick

Spec == Init /\ [][Next]_vars

(***************************************************************************)
(* Configure, one option per step, for every list of options over the      *)
(* channels a caller may build.                                            *)
(***************************************************************************)

\* The Channel values a caller builds, and how many options it passes.
MaxChannels == 2
MaxOptions == 2

ChannelLiterals ==
    { NewChannel(id, topicID, subID, age) :
        id \in {"", "test-channel", defaultDeadLetterName}, age \in {0, 60} }

OptionLists ==
    UNION { [1..n -> { Opt(name, ch) : name \in {"WithChannel", "WithDeadLetter"},
                                        ch \in 1..MaxChannels }]
            : n \in 0..MaxOptions }

InitRegistry ==
    /\ trim = NoTrim
    /\ now = 0
    /\ msgs = [m \in Slots |-> NoMessage]
    /\ client = NewClient
    /\ oper = NoOp
    /\ xlate = NoTranslate
    /\ runs = NoRuns
    /\ recv = NoReceive
    /\ es = NoElasticsearch
    /\ pg = NoPostgres
    /\ app = NoAppEnv
    /\ \E chans \in [1..MaxChannels -> ChannelLiterals], options \in OptionLists :
          /\ svc = NewPubSubService(chans)
          /\ reg = [chans |-> chans, options |-> options, next |-> 1]

\* for _, option := range s.options { option(s) }, on a WithChannel option
OptionWithChannel ==
    /\ reg.next <= Len(reg.options)
    /\ reg.options[reg.next].opt = "WithChannel"
    /\ svc' = WithChannel(svc, reg.options[reg.next].ch)
    /\ reg' = [reg EXCEPT !.next = @ + 1]
    /\ UNCHANGED <<es, pg, app, xlate, runs, recv, client, oper, trim, now, msgs>>

\* the same step on a WithDeadLetter option
OptionWithDeadLetter ==
    /\ reg.next <= Len(reg.options)
    /\ reg.options[reg.next].opt = "WithDeadLetter"
    /\ svc' = WithDeadLetter(svc, reg.options[reg.next].ch)
    /\ reg' = [reg EXCEPT !.next = @ + 1]
    /\ UNCHANGED <<es, pg, app, xlate, runs, recv, client, oper, trim, now, msgs>>

NextRegistry == OptionWithChannel \/ OptionWithDeadLetter

SpecRegistry == InitRegistry /\ [][NextRegistry]_vars

(***************************************************************************)
(* trimLeftBytes on its own: every string of up to MaxRunes code points,   *)
(* every string of up to MaxRawBytes bytes out of RawBytes, and every      *)
(* limit from 0 to one more than the length of the string.                 *)
(***************************************************************************)

MaxRunes == 3
MaxRawBytes == 3

CodePoints ==
    { <<97>>,                   \* U+0061
      <<195, 169>>,             \* U+00E9
      RuneNichi, RuneHon, RuneGo,
      <<240, 159, 152, 128>> }  \* U+1F600

RawBytes == {97, 151, 230, 255}

InitTrim ==
    /\ svc = NewPubSubService(<<>>)
    /\ reg = [chans |-> <<>>, options |-> <<>>, next |-> 1]
    /\ now = 0
    /\ msgs = [m \in Slots |-> NoMessage]
    /\ client = NewClient
    /\ oper = NoOp
    /\ xlate = NoTranslate
    /\ runs = NoRuns
    /\ recv = NoReceive
    /\ es = NoElasticsearch
    /\ pg = NoPostgres
    /\ app = NoAppEnv
    /\ \/ \E n \in 0..MaxRunes : \E rs \in [1..n -> CodePoints] :
            \E maxBytes \in 0..(Len(Flatten(rs)) + 1) :
                trim = [kind |-> "runes", runes |-> rs, str |-> Flatten(rs),
                        maxBytes |-> maxBytes, pc |-> "call", res |-> <<>>]
       \/ \E n \in 0..MaxRawBytes : \E bs \in [1..n -> RawBytes] :
            \E maxBytes \in 0..(n + 1) :
                trim = [kind |-> "raw", runes |-> <<>>, str |-> bs,
                        maxBytes |-> maxBytes, pc |-> "call", res |-> <<>>]

TrimLeftBytes ==
    /\ trim.pc = "call"
    /\ trim' = IF trimLeftBytesPanics(trim.str, trim.maxBytes)
               THEN [trim EXCEPT !.pc = "panic"]
               ELSE [trim EXCEPT !.pc = "done",
                                 !.res = trimLeftBytes(trim.str, trim.maxBytes)]
    /\ UNCHANGED <<es, pg, app, xlate, runs, recv, client, oper, svc, reg, now, msgs>>

NextTrim == TrimLeftBytes

SpecTrim == InitTrim /\ [][NextTrim]_vars

(***************************************************************************)
(* The calls the Service makes on its client.  Each yields the client      *)
(* after the call and the error the call returned.                         *)
(***************************************************************************)

\* err == nil
NilErr == [grpc |-> FALSE, code |-> ""]

\* An error that carries a gRPC status, and one that carries none.
GrpcError(code) == [grpc |-> TRUE, code |-> code]
PlainError(text) == [grpc |-> FALSE, code |-> text]

Rpc(name, id) == [rpc |-> name, id |-> id]

\* s.Topic(topicID).Exists(ctx)
TopicExists(c, id) ==
    IF c.closed THEN [c |-> c, err |-> GrpcError("Canceled"), exists |-> FALSE]
    ELSE [c |-> c, err |-> NilErr, exists |-> id \in c.topics]

\* s.CreateTopic(ctx, topicID)
CreateTopic(c, id) ==
    IF c.closed THEN [c |-> c, err |-> GrpcError("Canceled")]
    ELSE IF id \in c.topics THEN [c |-> c, err |-> GrpcError("AlreadyExists")]
    ELSE [c |-> [c EXCEPT !.topics = @ \cup {id}], err |-> NilErr]

\* topic.Delete(ctx); the subscriptions of the topic stay
TopicDelete(c, id) ==
    IF c.closed THEN [c |-> c, err |-> GrpcError("Canceled")]
    ELSE IF id \notin c.topics THEN [c |-> c, err |-> GrpcError("NotFound")]
    ELSE [c |-> [c EXCEPT !.topics = @ \ {id}], err |-> NilErr]

\* s.Subscription(subID).Exists(ctx)
SubscriptionExists(c, id) ==
    IF c.closed THEN [c |-> c, err |-> GrpcError("Canceled"), exists |-> FALSE]
    ELSE [c |-> c, err |-> NilErr, exists |-> id \in DOMAIN c.subs]

\* s.CreateSubscription(ctx, subID, SubscriptionConfig{Topic: s.Topic(topicID)})
CreateSubscription(c, id, topic) ==
    IF c.closed THEN [c |-> c, err |-> GrpcError("Canceled")]
    ELSE IF id \in DOMAIN c.subs THEN [c |-> c, err |-> GrpcError("AlreadyExists")]
    ELSE IF topic \notin c.topics THEN [c |-> c, err |-> GrpcError("NotFound")]
    ELSE [c |-> [c EXCEPT !.subs = SetKey(@, id, [topic |-> topic, waiting |-> <<>>])],
          err |-> NilErr]

\* sub.Delete(ctx)
SubscriptionDelete(c, id) ==
    IF c.closed THEN [c |-> c, err |-> GrpcError("Canceled")]
    ELSE IF id \notin DOMAIN c.subs THEN [c |-> c, err |-> GrpcError("NotFound")]
    ELSE [c |-> [c EXCEPT !.subs = [x \in (DOMAIN @) \ {id} |-> @[x]]],
          err |-> NilErr]

\* t.Publish(ctx, msg).Get(ctx): fault is the error of ctx or of the server,
\* if there is one.  The message waits on every subscription of the topic.
TopicPublish(c, id, msg, fault) ==
    IF c.closed THEN [c |-> c, err |-> GrpcError("Canceled")]
    ELSE IF fault # NilErr THEN [c |-> c, err |-> fault]
    ELSE IF id \notin c.topics THEN [c |-> c, err |-> GrpcError("NotFound")]
    ELSE [c |-> [c EXCEPT !.subs =
                    [x \in DOMAIN @ |->
                        IF @[x].topic = id
                        THEN [@[x] EXCEPT !.waiting = Append(@, msg)]
                        ELSE @[x]]],
          err |-> NilErr]

\* sub.Receive(ctx, callback) until ctx is cancelled: the callback runs for
\* the first n messages that wait on the subscription.
SubscriptionReceive(c, id, n) ==
    IF c.closed THEN [c |-> c, err |-> GrpcError("Canceled"), received |-> 0]
    ELSE IF id \notin DOMAIN c.subs
    THEN [c |-> c, err |-> GrpcError("NotFound"), received |-> 0]
    ELSE [c |-> [c EXCEPT !.subs[id].waiting = SubSeq(@, n + 1, Len(@))],
          err |-> NilErr,
          received |-> n]

(***************************************************************************)
(* The errors of the Service methods.                                      *)
(***************************************************************************)

ErrClosed == [text |-> "pubsub Service has been closed", cause |-> ""]

\* errors.Errorf("channel %q not found", channel)
ErrChannelNotFound(channel) ==
    [text |-> "channel %q not found", channel |-> channel]

\* errors.Errorf("channel %q does not have a subscription", channel)
ErrNoSubscription(channel) ==
    [text |-> "channel %q does not have a subscription", channel |-> channel]

\* errors.Wrapf(err, wrapMsg, args...) and fmt.Errorf(wrapMsg + ": %w", id, err)
Wrapf(err, wrapMsg, id) == [text |-> wrapMsg, id |-> id, cause |-> err.code]

translateError(err, wrapMsg, id) ==
    IF err # NilErr
    THEN IF ~err.grpc \/ err.code = "Canceled"
         THEN ErrClosed
         ELSE Wrapf(err, wrapMsg, id)
    ELSE NoError

(***************************************************************************)
(* The Service methods, as functions of the registry s and the client c.   *)
(* Each yields the client after the method, the calls it made on the       *)
(* client in order (log) and the error it returned.                        *)
(***************************************************************************)

Result(c, log, err) == [c |-> c, log |-> log, err |-> err]

\* A call on the client that the server may fail: faults is the set of calls
\* the server answers with Unavailable while the method runs, r what the
\* call yields otherwise.  A closed client fails before the server is asked.
Served(c, faults, rpc, r) ==
    IF ~c.closed /\ rpc \in faults
    THEN [c |-> c, err |-> GrpcError("Unavailable"), exists |-> FALSE]
    ELSE r

\* Faulty variant: the topic is created without asking whether it exists.
EnsureTopicCall_alwaysCreates(c, id, faults) ==
    LET cr == Served(c, faults, Rpc("CreateTopic", id), CreateTopic(c, id))
    IN  Result(cr.c, <<Rpc("CreateTopic", id)>>,
               IF cr.err # NilErr THEN Wrapf(cr.err, "creating topic %s", id)
               ELSE NoError)

EnsureTopicCall(c, id, faults) ==
    LET e   == Served(c, faults, Rpc("Topic.Exists", id), TopicExists(c, id))
        log == <<Rpc("Topic.Exists", id)>>
    IN  IF e.err # NilErr
        THEN Result(c, log, Wrapf(e.err, "checking if topic %s exists", id))
        ELSE IF ~e.exists
        THEN LET cr   == Served(c, faults, Rpc("CreateTopic", id), CreateTopic(c, id))
                 log2 == Append(log, Rpc("CreateTopic", id))
             IN  IF cr.err # NilErr
                 THEN Result(cr.c, log2, Wrapf(cr.err, "creating topic %s", id))
                 ELSE Result(cr.c, log2, NoError)
        ELSE Result(c, log, NoError)

EnsureSubscriptionCall(c, topic, id, faults) ==
    LET e   == Served(c, faults, Rpc("Subscription.Exists", id),
                      SubscriptionExists(c, id))
        log == <<Rpc("Subscription.Exists", id)>>
    IN  IF e.err # NilErr
        THEN Result(c, log, Wrapf(e.err, "checking if subscriptions %s exists", id))
        ELSE IF ~e.exists
        THEN LET cr   == Served(c, faults, Rpc("CreateSubscription", id),
                                CreateSubscription(c, id, topic))
                 log2 == Append(log, Rpc("CreateSubscription", id))
             IN  IF cr.err # NilErr
                 THEN Result(cr.c, log2, Wrapf(cr.err, "creating subscription %s", id))
                 ELSE Result(cr.c, log2, NoError)
        ELSE Result(c, log, NoError)

\* Faulty variant: the subscription is ensured before the topic.
CreateChannel_subscriptionFirst(c, ch, faults) ==
    LET sb == IF ch.SubscriptionID # <<>>
              THEN EnsureSubscriptionCall(c, ch.TopicID, ch.SubscriptionID, faults)
              ELSE Result(c, <<>>, NoError)
    IN  IF sb.err # NoError THEN sb
        ELSE LET t == EnsureTopicCall(sb.c, ch.TopicID, faults)
             IN  Result(t.c, sb.log \o t.log, t.err)

\* One round of the loop of CreateAll, on channel ch.
CreateChannel(c, ch, faults) ==
    LET t == EnsureTopicCall(c, ch.TopicID, faults)
    IN  IF t.err # NoError THEN t
        ELSE IF ch.SubscriptionID # <<>>
        THEN LET sb == EnsureSubscriptionCall(t.c, ch.TopicID, ch.SubscriptionID,
                                              faults)
             IN  Result(sb.c, t.log \o sb.log, sb.err)
        ELSE t

\* Faulty variant: after an error the loop goes on with the next channel and
\* the first error is returned at the end.
RECURSIVE CreateAllFrom_keepsGoing(_, _, _, _)
CreateAllFrom_keepsGoing(s, r, keys, faults) ==
    IF keys = <<>> THEN r
    ELSE LET one == CreateChannel(r.c, s.mem[s.Channels[Head(keys)]], faults)
             r2  == Result(one.c, r.log \o one.log,
                           IF r.err # NoError THEN r.err ELSE one.err)
         IN  CreateAllFrom_keepsGoing(s, r2, Tail(keys), faults)

\* for _, ch := range s.Channels, in the order of iteration keys
RECURSIVE CreateAllFrom(_, _, _, _)
CreateAllFrom(s, r, keys, faults) ==
    IF keys = <<>> THEN r
    ELSE LET one == CreateChannel(r.c, s.mem[s.Channels[Head(keys)]], faults)
             r2  == Result(one.c, r.log \o one.log, one.err)
         IN  IF one.err # NoError THEN r2
             ELSE CreateAllFrom(s, r2, Tail(keys), faults)

CreateAllCall(s, c, keys, faults) ==
    CreateAllFrom(s, Result(c, <<>>, NoError), keys, faults)

\* Faulty variant: the topic is deleted before the subscription.
DeleteChannelCall_topicFirst(s, c, channel) ==
    IF channel \notin DOMAIN s.Channels
    THEN Result(c, <<>>, ErrChannelNotFound(channel))
    ELSE LET ch == s.mem[s.Channels[channel]]
             td == TopicDelete(c, ch.TopicID)
             sd == SubscriptionDelete(td.c, ch.SubscriptionID)
         IN  Result(sd.c, <<Rpc("Topic.Delete", ch.TopicID),
                            Rpc("Subscription.Delete", ch.SubscriptionID)>>,
                    translateError(td.err, "failed to delete topic %q", ch.TopicID))

\* The second half of DeleteChannel: the topic.
DeleteChannelTopic(r, ch) ==
    LET e   == TopicExists(r.c, ch.TopicID)
        log == Append(r.log, Rpc("Topic.Exists", ch.TopicID))
    IN  IF e.err # NilErr
        THEN Result(r.c, log,
                    translateError(e.err, "failed to retrieve topic %q", ch.TopicID))
        ELSE IF e.exists
        THEN LET d == TopicDelete(r.c, ch.TopicID)
             IN  Result(d.c, Append(log, Rpc("Topic.Delete", ch.TopicID)),
                        translateError(d.err, "failed to delete topic %q", ch.TopicID))
        ELSE Result(r.c, log, NoError)

DeleteChannelCall(s, c, channel) ==
    IF channel \notin DOMAIN s.Channels
    THEN Result(c, <<>>, ErrChannelNotFound(channel))
    ELSE LET ch == s.mem[s.Channels[channel]]
         IN  IF ch.SubscriptionID # <<>>
             THEN LET e   == SubscriptionExists(c, ch.SubscriptionID)
                      log == <<Rpc("Subscription.Exists", ch.SubscriptionID)>>
                  IN  IF e.err # NilErr
                      THEN Result(c, log,
                               translateError(e.err, "failed to retrieve subscription %q",
                                              ch.SubscriptionID))
                      ELSE IF e.exists
                      THEN LET d    == SubscriptionDelete(c, ch.SubscriptionID)
                               log2 == Append(log, Rpc("Subscription.Delete",
                                                       ch.SubscriptionID))
                           IN  IF d.err # NilErr
                               THEN Result(d.c, log2,
                                        translateError(d.err,
                                            "failed to delete subscription %q",
                                            ch.SubscriptionID))
                               ELSE DeleteChannelTopic(Result(d.c, log2, NoError), ch)
                      ELSE DeleteChannelTopic(Result(c, log, NoError), ch)
             ELSE DeleteChannelTopic(Result(c, <<>>, NoError), ch)

\* for _, ch := range s.Channels { s.DeleteChannel(ch.ID) }
RECURSIVE DeleteAllFrom(_, _, _)
DeleteAllFrom(s, r, keys) ==
    IF keys = <<>> THEN r
    ELSE LET one == DeleteChannelCall(s, r.c, s.mem[s.Channels[Head(keys)]].ID)
             r2  == Result(one.c, r.log \o one.log, one.err)
         IN  IF one.err # NoError THEN r2
             ELSE DeleteAllFrom(s, r2, Tail(keys))

DeleteAllCall(s, c, keys) == DeleteAllFrom(s, Result(c, <<>>, NoError), keys)

\* Faulty variant: the subscription of the channel is not looked at.
ReceiveCall_withoutSubscriptionCheck(s, c, channel, n) ==
    IF channel \notin DOMAIN s.Channels
    THEN [c |-> c, log |-> <<>>, err |-> ErrChannelNotFound(channel), handled |-> 0]
    ELSE LET ch == s.mem[s.Channels[channel]]
             rc == SubscriptionReceive(c, ch.SubscriptionID, n)
         IN  [c |-> rc.c,
              log |-> <<Rpc("Subscription.Receive", ch.SubscriptionID)>>,
              err |-> translateError(rc.err,
                         "receiving message from subscription %q failed",
                         ch.SubscriptionID),
              handled |-> rc.received]

\* Service.Receive with a context that is cancelled once f has been called
\* for n messages; handled is the number of calls of f.
ReceiveCall(s, c, channel, n) ==
    IF channel \notin DOMAIN s.Channels
    THEN [c |-> c, log |-> <<>>, err |-> ErrChannelNotFound(channel), handled |-> 0]
    ELSE LET ch == s.mem[s.Channels[channel]]
         IN  IF ch.SubscriptionID = <<>>
             THEN [c |-> c, log |-> <<>>, err |-> ErrNoSubscription(channel),
                   handled |-> 0]
             ELSE LET rc == SubscriptionReceive(c, ch.SubscriptionID, n)
                  IN  [c |-> rc.c,
                       log |-> <<Rpc("Subscription.Receive", ch.SubscriptionID)>>,
                       err |-> translateError(rc.err,
                                  "receiving message from subscription %q failed",
                                  ch.SubscriptionID),
                       handled |-> rc.received]

\* Service.ReceiveNr; msgs is the number of messages returned.
ReceiveNrCall(s, c, channel, nrOfMessages) ==
    IF channel \notin DOMAIN s.Channels
    THEN [c |-> c, log |-> <<>>, err |-> ErrChannelNotFound(channel), msgs |-> 0]
    ELSE LET ch == s.mem[s.Channels[channel]]
             rc == SubscriptionReceive(c, ch.SubscriptionID, nrOfMessages)
             log == <<Rpc("Subscription.Receive", ch.SubscriptionID)>>
         IN  IF rc.err # NilErr
             THEN [c |-> rc.c, log |-> log,
                   err |-> translateError(rc.err,
                              "receiving message from subscription %q failed",
                              ch.SubscriptionID),
                   msgs |-> 0]
             ELSE [c |-> rc.c, log |-> log, err |-> NoError, msgs |-> rc.received]

\* The payloads of the tests: a string is the sequence of its bytes, a
\* float64 the sequence of the bytes of its value as strconv prints it.
StringPayload(bytes) == [kind |-> "string", val |-> bytes]

Float64Payload(bytes) == [kind |-> "float64", val |-> bytes]

\* "test message", "test message2" and math.Inf(1)
testMessage == <<116,101,115,116,32,109,101,115,115,97,103,101>>

testMessage2 == testMessage \o <<50>>

Inf == Float64Payload(<<43,73,110,102>>)

Payloads == {StringPayload(testMessage), Inf}

\* The digit of n in base 16, in lower case
HexDigit(n) == IF n < 10 THEN 48 + n ELSE 87 + n

\* encoding/json on one byte of a string, with EscapeHTML as Marshal sets
\* it: the bytes of a valid multi-byte rune are copied.
EncodeByte(b) ==
    CASE b = 34 -> <<92, 34>>
      [] b = 92 -> <<92, 92>>
      [] b = 10 -> <<92, 110>>
      [] b = 13 -> <<92, 114>>
      [] b = 9  -> <<92, 116>>
      [] b < 32 \/ b \in {60, 62, 38} ->
            <<92, 117, 48, 48, HexDigit(b \div 16), HexDigit(b % 16)>>
      [] OTHER -> <<b>>

RECURSIVE EncodeBytes(_)
EncodeBytes(bytes) ==
    IF bytes = <<>> THEN <<>>
    ELSE EncodeByte(Head(bytes)) \o EncodeBytes(Tail(bytes))

\* json.Marshal(payload)
Marshal(payload) ==
    IF payload.kind = "string"
    THEN [bytes |-> <<34>> \o EncodeBytes(payload.val) \o <<34>>, err |-> NilErr]
    ELSE IF payload.val \in {<<43,73,110,102>>, <<45,73,110,102>>, <<78,97,78>>}
    THEN [bytes |-> <<>>, err |-> PlainError("json: unsupported value")]
    ELSE [bytes |-> payload.val, err |-> NilErr]

\* &gpubsub.Message{Data: bytes, Attributes: map[string]string{"event": eventName}}
EventMessage(eventName, bytes) ==
    [Data |-> bytes, Attributes |-> [event |-> eventName]]

\* Faulty variant: the event is published before the payload is looked at.
PublishEventCall_publishesFirst(s, c, channel, eventName, payload, fault) ==
    IF channel \notin DOMAIN s.Channels
    THEN Result(c, <<>>, ErrChannelNotFound(channel))
    ELSE LET ch == s.mem[s.Channels[channel]]
             m  == Marshal(payload)
             p  == TopicPublish(c, ch.TopicID, EventMessage(eventName, m.bytes), fault)
         IN  Result(p.c, <<Rpc("Topic.Publish", ch.TopicID)>>,
                    IF m.err # NilErr
                    THEN Wrapf(m.err, "failed to marshal payload for event %q on t %q",
                               ch.TopicID)
                    ELSE translateError(p.err, "could not publish event %q to t %q",
                                        ch.TopicID))

PublishEventCall(s, c, channel, eventName, payload, fault) ==
    IF channel \notin DOMAIN s.Channels
    THEN Result(c, <<>>, ErrChannelNotFound(channel))
    ELSE LET ch == s.mem[s.Channels[channel]]
             m  == Marshal(payload)
         IN  IF m.err # NilErr
             THEN Result(c, <<>>,
                         Wrapf(m.err, "failed to marshal payload for event %q on t %q",
                               ch.TopicID))
             ELSE LET p == TopicPublish(c, ch.TopicID,
                                        EventMessage(eventName, m.bytes), fault)
                  IN  Result(p.c, <<Rpc("Topic.Publish", ch.TopicID)>>,
                             translateError(p.err, "could not publish event %q to t %q",
                                            ch.TopicID))

\* Faulty variant: a second Close opens the client again.
CloseCall_toggles(c) ==
    [c |-> [c EXCEPT !.closed = ~@], err |-> NilErr]

\* s.Client.Close(): a client that is closed already reports that it is
\* closing.
CloseCall(c) ==
    IF c.closed
    THEN [c |-> c, err |-> GrpcError("Canceled")]
    ELSE [c |-> [c EXCEPT !.closed = TRUE], err |-> NilErr]

(***************************************************************************)
(* The Service methods as steps: one call of a method on the configured    *)
(* Service after another, from a client whose project has no topics and    *)
(* no subscriptions yet.  The services are the ones of the test fixture,   *)
(* one without any channel and one whose options register a second channel *)
(* under the ID of the dead-letter channel.                                *)
(***************************************************************************)

\* The number of messages that may wait on a subscription.
MaxWaiting == 1

\* The fixture's channels and one more Channel value with the ID of the
\* dead-letter channel.
SecondDeadLetterChannels ==
    Append(FixtureChannels, NewChannel(defaultDeadLetterName, topicID2, <<>>, 0))

ServicePrograms ==
    Programs \cup
    { [chans |-> FixtureChannels, options |-> <<>>],
      [chans |-> SecondDeadLetterChannels,
       options |-> <<Opt("WithChannel", 1), Opt("WithDeadLetter", 3),
                     Opt("WithChannel", 4)>>] }

\* The channel IDs the callers pass: the ones of the fixture and one that
\* no option registers.
ChannelArgs ==
    {"test-channel", "without-subscription", defaultDeadLetterName, "unknown"}

\* The errors Publish(...).Get(ctx) may return on an open client: the one
\* of an expired context and one of the server.
PublishFaults ==
    {NilErr, PlainError("context deadline exceeded"), GrpcError("Unavailable")}

\* The calls the server may fail while EnsureTopic, EnsureSubscription or
\* CreateAll runs: none, or one of the calls on the main channel's topic and
\* subscription and on the dead-letter topic.
TransportFaults ==
    {{}} \cup
    { {Rpc(name, id)} : name \in {"Topic.Exists", "CreateTopic"},
                        id \in {topicID, deadLetterTopicID} } \cup
    { {Rpc(name, subID)} : name \in {"Subscription.Exists", "CreateSubscription"} }

\* The orders in which range may visit the keys of a map.
Orders(S) ==
    { f \in [1..Cardinality(S) -> S] : \A i, j \in DOMAIN f : f[i] = f[j] => i = j }

Ran(name, args, r) ==
    [name |-> name, args |-> args, log |-> r.log, handled |-> 0, res |-> Nil,
     err |-> r.err, logged |-> ""]

InitService ==
    /\ trim = NoTrim
    /\ now = 0
    /\ msgs = [m \in Slots |-> NoMessage]
    /\ \E p \in ServicePrograms :
          /\ svc = Configure(p.chans, p.options)
          /\ reg = [chans |-> p.chans, options |-> p.options,
                    next |-> Len(p.options) + 1]
    /\ client = NewClient
    /\ oper = NoOp
    /\ xlate = NoTranslate
    /\ runs = NoRuns
    /\ recv = NoReceive
    /\ es = NoElasticsearch
    /\ pg = NoPostgres
    /\ app = NoAppEnv

ChannelLookup(channelID) ==
    /\ oper' = [NoOp EXCEPT !.name = "Channel", !.args.channel = channelID,
                            !.res = Channel(svc, channelID)]
    /\ UNCHANGED <<es, pg, app, xlate, runs, recv, trim, svc, reg, now, msgs, client>>

EnsureTopic(id, faults) ==
    LET r == EnsureTopicCall(client, id, faults)
    IN  /\ client' = r.c
        /\ oper' = Ran("EnsureTopic",
                       [NoArgs EXCEPT !.topicID = id, !.faults = faults], r)
        /\ UNCHANGED <<es, pg, app, xlate, runs, recv, trim, svc, reg, now, msgs>>

EnsureSubscription(topic, id, faults) ==
    LET r == EnsureSubscriptionCall(client, topic, id, faults)
    IN  /\ client' = r.c
        /\ oper' = Ran("EnsureSubscription",
                       [NoArgs EXCEPT !.topicID = topic, !.subID = id,
                                      !.faults = faults], r)
        /\ UNCHANGED <<es, pg, app, xlate, runs, recv, trim, svc, reg, now, msgs>>

CreateAll(faults) ==
    \E keys \in Orders(DOMAIN svc.Channels) :
        LET r == CreateAllCall(svc, client, keys, faults)
        IN  /\ client' = r.c
            /\ oper' = Ran("CreateAll", [NoArgs EXCEPT !.faults = faults], r)
            /\ UNCHANGED <<es, pg, app, xlate, runs, recv, trim, svc, reg, now, msgs>>

DeleteChannel(channel) ==
    LET r == DeleteChannelCall(svc, client, channel)
    IN  /\ client' = r.c
        /\ oper' = Ran("DeleteChannel", [NoArgs EXCEPT !.channel = channel], r)
        /\ UNCHANGED <<es, pg, app, xlate, runs, recv, trim, svc, reg, now, msgs>>

DeleteAll ==
    \E keys \in Orders(DOMAIN svc.Channels) :
        LET r == DeleteAllCall(svc, client, keys)
        IN  /\ client' = r.c
            /\ oper' = Ran("DeleteAll", NoArgs, r)
            /\ UNCHANGED <<es, pg, app, xlate, runs, recv, trim, svc, reg, now, msgs>>

\* The messages that wait on the subscription of a channel.
Waiting(channel) ==
    IF channel \in DOMAIN svc.Channels /\ ~client.closed
       /\ svc.mem[svc.Channels[channel]].SubscriptionID \in DOMAIN client.subs
    THEN Len(client.subs[svc.mem[svc.Channels[channel]].SubscriptionID].waiting)
    ELSE 0

PublishEvent(channel, payload, fault) ==
    LET r == PublishEventCall(svc, client, channel, ev1, payload, fault)
    IN  /\ \A id \in DOMAIN r.c.subs : Len(r.c.subs[id].waiting) <= MaxWaiting
        /\ client' = r.c
        /\ oper' = Ran("PublishEvent",
                       [NoArgs EXCEPT !.channel = channel, !.eventName = ev1,
                                      !.payload = payload], r)
        /\ UNCHANGED <<es, pg, app, xlate, runs, recv, trim, svc, reg, now, msgs>>

\* Service.Receive, returning when its context is cancelled after n calls
\* of the callback.
ServiceReceive(channel) ==
    \E n \in 0..Waiting(channel) :
        LET r == ReceiveCall(svc, client, channel, n)
        IN  /\ client' = r.c
            /\ oper' = [Ran("Receive", [NoArgs EXCEPT !.channel = channel], r)
                            EXCEPT !.handled = r.handled]
            /\ UNCHANGED <<es, pg, app, xlate, runs, recv, trim, svc, reg, now, msgs>>

\* Service.ReceiveNr; it returns once nrOfMessages messages have arrived,
\* or with the error of the subscription.
ServiceReceiveNr(channel, nrOfMessages) ==
    LET r == ReceiveNrCall(svc, client, channel, nrOfMessages)
    IN  /\ r.err = NoError => nrOfMessages <= Waiting(channel)
        /\ client' = r.c
        /\ oper' = [Ran("ReceiveNr",
                        [NoArgs EXCEPT !.channel = channel,
                                       !.nrOfMessages = nrOfMessages], r)
                        EXCEPT !.res = r.msgs]
        /\ UNCHANGED <<es, pg, app, xlate, runs, recv, trim, svc, reg, now, msgs>>

Close ==
    LET r == CloseCall(client)
    IN  /\ client' = r.c
        /\ oper' = [NoOp EXCEPT !.name = "Close",
                        !.logged = IF r.err # NilErr
                                   THEN "failed closing pubsub Service gracefully"
                                   ELSE "stopped pubsub Service"]
        /\ UNCHANGED <<es, pg, app, xlate, runs, recv, trim, svc, reg, now, msgs>>

NextService ==
    \/ \E channelID \in ChannelArgs : ChannelLookup(channelID)
    \/ \E ch \in DOMAIN FixtureChannels, faults \in TransportFaults :
          EnsureTopic(FixtureChannels[ch].TopicID, faults)
    \/ \E ch \in DOMAIN FixtureChannels, faults \in TransportFaults :
          /\ FixtureChannels[ch].SubscriptionID # <<>>
          /\ EnsureSubscription(FixtureChannels[ch].TopicID,
                                FixtureChannels[ch].SubscriptionID, faults)
    \/ \E faults \in TransportFaults : CreateAll(faults)
    \/ \E channel \in ChannelArgs : DeleteChannel(channel)
    \/ DeleteAll
    \/ \E channel \in ChannelArgs, payload \in Payloads, fault \in PublishFaults :
          PublishEvent(channel, payload, fault)
    \/ \E channel \in ChannelArgs : ServiceReceive(channel)
    \/ \E channel \in ChannelArgs, nrOfMessages \in 1..MaxWaiting :
          ServiceReceiveNr(channel, nrOfMessages)
    \/ Close

SpecService == InitService /\ [][NextService]_vars

(***************************************************************************)
(* translateError on its own: nil, an error of every gRPC status code and  *)
(* errors without a status, with the message of every call site.          *)
(***************************************************************************)

\* google.golang.org/grpc/codes, without OK
GrpcCodes ==
    {"Canceled", "Unknown", "InvalidArgument", "DeadlineExceeded", "NotFound",
     "AlreadyExists", "PermissionDenied", "ResourceExhausted",
     "FailedPrecondition", "Aborted", "OutOfRange", "Unimplemented",
     "Internal", "Unavailable", "DataLoss", "Unauthenticated"}

\* Errors without a gRPC status: those of a context, and two that the client
\* returns itself (pubsub.ErrOversizedMessage, and a second Receive on a
\* subscription that is being received from).
ContextErrors == {"context canceled", "context deadline exceeded"}

ClientErrors ==
    {"item size exceeds bundle byte limit",
     "pubsub: Receive already in progress for this subscription"}

TranslateErrors ==
    {NilErr} \cup { GrpcError(code) : code \in GrpcCodes }
             \cup { PlainError(text) : text \in ContextErrors \cup ClientErrors }

\* The messages translateError is called with.
WrapMsgs ==
    {"failed to retrieve subscription %q", "failed to delete subscription %q",
     "failed to retrieve topic %q", "failed to delete topic %q",
     "receiving message from subscription %q failed",
     "could not publish event %q to t %q"}

InitTranslate ==
    /\ trim = NoTrim
    /\ svc = NewPubSubService(<<>>)
    /\ reg = [chans |-> <<>>, options |-> <<>>, next |-> 1]
    /\ now = 0
    /\ msgs = [m \in Slots |-> NoMessage]
    /\ client = NewClient
    /\ oper = NoOp
    /\ runs = NoRuns
    /\ recv = NoReceive
    /\ es = NoElasticsearch
    /\ pg = NoPostgres
    /\ app = NoAppEnv
    /\ \E err \in TranslateErrors, wrapMsg \in WrapMsgs :
          xlate = [pc |-> "call", err |-> err, wrapMsg |-> wrapMsg, id |-> topicID,
                   res |-> NoError]

TranslateError ==
    /\ xlate.pc = "call"
    /\ xlate' = [xlate EXCEPT !.pc = "done",
                              !.res = translateError(xlate.err, xlate.wrapMsg, xlate.id)]
    /\ UNCHANGED <<es, pg, app, trim, svc, reg, now, msgs, client, oper, runs, recv>>

NextTranslate == TranslateError

SpecTranslate == InitTranslate /\ [][NextTranslate]_vars

(***************************************************************************)
(* Two handlers at once, each with a RichMessage of its own, on a Service  *)
(* that may be closed while they run.                                      *)
(***************************************************************************)

Handlers == {"m1", "m2"}

ev2 == <<101, 118, 50>>

\* The message each handler receives and the cause it reports.
HandlerIDs == [m \in Handlers |-> IF m = "m1" THEN <<49, 48, 49>> ELSE <<49, 48, 50>>]

HandlerAttributes ==
    [m \in Handlers |->
        IF m = "m1" THEN [event |-> ev1]
        ELSE [event |-> ev2, deadLetterCount |-> <<50>>, tenant |-> <<98>>]]

HandlerCauses == [m \in Handlers |-> IF m = "m1" THEN "errTest" ELSE "shortInvalid"]

HandlerAges == {0, 121}

InitHandlers ==
    /\ trim = NoTrim
    /\ \E p \in Programs :
          /\ svc = Configure(p.chans, p.options)
          /\ reg = [chans |-> p.chans, options |-> p.options,
                    next |-> Len(p.options) + 1]
    /\ now = 0
    /\ msgs = [m \in Handlers |-> NoMessage]
    /\ client = NewClient
    /\ oper = NoOp
    /\ xlate = NoTranslate
    /\ runs = NoRuns
    /\ recv = NoReceive
    /\ es = NoElasticsearch
    /\ pg = NoPostgres
    /\ app = NoAppEnv

\* Service.Close while handlers run
CloseDuringHandlers ==
    /\ Close
    /\ UNCHANGED msgs

NextHandlers ==
    \/ \E m \in Handlers :
          ReceiveFrom(m, {HandlerIDs[m]}, {HandlerAttributes[m]}, HandlerAges)
    \/ \E m \in Handlers : DeadLetterWith(m, {HandlerCauses[m]})
    \/ \E m \in Handlers : RetryableErrorWith(m, {HandlerCauses[m]})
    \/ \E m \in Handlers : DeadLetterPublished(m)
    \/ \E m \in Handlers : HandlerReturn(m)
    \/ CloseDuringHandlers

SpecHandlers == InitHandlers /\ [][NextHandlers]_vars

(***************************************************************************)
(* CreateAll one call on the client at a time: two callers run CreateAll   *)
(* again and again on the same project, so that the checks and creates of  *)
(* one run interleave with those of the other.  The project starts with    *)
(* any of the registered topics and subscriptions in place, and the server *)
(* fails a bounded number of calls.                                        *)
(***************************************************************************)

\* The number of calls the server fails before it stops failing.
MaxFaults == 1

Callers == {"a", "b"}

\* The service of the fixture without the dead-letter channel.
ReconcileProgram ==
    [chans |-> FixtureChannels,
     options |-> <<Opt("WithChannel", 1), Opt("WithChannel", 2)>>]

\* A caller that has not called CreateAll yet.  keys are the channels the
\* range loop has still to visit, the first being the one it is at.
NoRun == [pc |-> "idle", keys |-> <<>>, err |-> NoError]

\* The channel the loop of a run is at.
ChannelOfRun(s, run) == s.mem[s.Channels[Head(run.keys)]]

\* return err
RunFailed(run, err) == [run EXCEPT !.pc = "done", !.err = err]

\* The end of the loop body: the next channel, or return nil.
NextChannel(run) ==
    IF Len(run.keys) > 1
    THEN [run EXCEPT !.pc = "Topic.Exists", !.keys = Tail(@)]
    ELSE [run EXCEPT !.pc = "done", !.keys = <<>>, !.err = NoError]

\* EnsureTopic has returned nil.
TopicEnsured(s, run) ==
    IF ChannelOfRun(s, run).SubscriptionID # <<>>
    THEN [run EXCEPT !.pc = "Subscription.Exists"]
    ELSE NextChannel(run)

\* Faulty variant: a topic that does not exist is taken as ensured.
TopicChecked_neverCreates(s, run, e) ==
    IF e.err # NilErr
    THEN RunFailed(run, Wrapf(e.err, "checking if topic %s exists",
                              ChannelOfRun(s, run).TopicID))
    ELSE TopicEnsured(s, run)

\* EnsureTopic after exists, err := s.Topic(topicID).Exists(ctx)
TopicChecked(s, run, e) ==
    IF e.err # NilErr
    THEN RunFailed(run, Wrapf(e.err, "checking if topic %s exists",
                              ChannelOfRun(s, run).TopicID))
    ELSE IF ~e.exists THEN [run EXCEPT !.pc = "CreateTopic"]
    ELSE TopicEnsured(s, run)

\* EnsureTopic after _, err := s.CreateTopic(ctx, topicID)
TopicCreated(s, run, cr) ==
    IF cr.err # NilErr
    THEN RunFailed(run, Wrapf(cr.err, "creating topic %s",
                              ChannelOfRun(s, run).TopicID))
    ELSE TopicEnsured(s, run)

\* EnsureSubscription after exists, err := s.Subscription(subID).Exists(ctx)
SubscriptionChecked(s, run, e) ==
    IF e.err # NilErr
    THEN RunFailed(run, Wrapf(e.err, "checking if subscriptions %s exists",
                              ChannelOfRun(s, run).SubscriptionID))
    ELSE IF ~e.exists THEN [run EXCEPT !.pc = "CreateSubscription"]
    ELSE NextChannel(run)

\* EnsureSubscription after _, err := s.CreateSubscription(...)
SubscriptionCreated(s, run, cr) ==
    IF cr.err # NilErr
    THEN RunFailed(run, Wrapf(cr.err, "creating subscription %s",
                              ChannelOfRun(s, run).SubscriptionID))
    ELSE NextChannel(run)

\* The topics and subscriptions of the registry.
RegisteredTopics(s) == { s.mem[s.Channels[id]].TopicID : id \in DOMAIN s.Channels }

RegisteredSubscriptions(s) ==
    { s.mem[s.Channels[id]].SubscriptionID : id \in DOMAIN s.Channels } \ {<<>>}

InitReconcile ==
    /\ trim = NoTrim
    /\ now = 0
    /\ msgs = [m \in Slots |-> NoMessage]
    /\ svc = Configure(ReconcileProgram.chans, ReconcileProgram.options)
    /\ reg = [chans |-> ReconcileProgram.chans, options |-> ReconcileProgram.options,
              next |-> Len(ReconcileProgram.options) + 1]
    /\ \E topics \in SUBSET RegisteredTopics(svc),
          subs \in SUBSET RegisteredSubscriptions(svc) :
          client = [NewClient EXCEPT
                      !.topics = topics,
                      !.subs = [id \in subs |-> [topic |-> topicID, waiting |-> <<>>]]]
    /\ oper = NoOp
    /\ xlate = NoTranslate
    /\ runs = [left |-> MaxFaults, of |-> [c \in Callers |-> NoRun]]
    /\ recv = NoReceive
    /\ es = NoElasticsearch
    /\ pg = NoPostgres
    /\ app = NoAppEnv

\* What the server does to one call: it serves it, or fails it if it has
\* failures left.
FaultsOf(rpc) == {{}} \cup (IF runs.left > 0 THEN {{rpc}} ELSE {})

\* One call of a run on the client: r(faults) is what the call yields and
\* after(r) the run after it.
RunStep(c, faults, r, after) ==
    /\ client' = r.c
    /\ runs' = [runs EXCEPT !.left = IF faults = {} THEN @ ELSE @ - 1,
                            !.of[c] = after]
    /\ UNCHANGED <<es, pg, app, trim, svc, reg, now, msgs, oper, xlate, recv>>

\* s.CreateAll() is called: range picks an order of the channels.
StartCreateAll(c) ==
    /\ runs.of[c].pc \in {"idle", "done"}
    /\ \E keys \in Orders(DOMAIN svc.Channels) :
          runs' = [runs EXCEPT !.of[c] =
                     IF keys = <<>>
                     THEN [pc |-> "done", keys |-> <<>>, err |-> NoError]
                     ELSE [pc |-> "Topic.Exists", keys |-> keys, err |-> NoError]]
    /\ UNCHANGED <<es, pg, app, trim, svc, reg, now, msgs, oper, xlate, recv, client>>

RunTopicExists(c) ==
    /\ runs.of[c].pc = "Topic.Exists"
    /\ LET id == ChannelOfRun(svc, runs.of[c]).TopicID
       IN  \E faults \in FaultsOf(Rpc("Topic.Exists", id)) :
              LET e == Served(client, faults, Rpc("Topic.Exists", id),
                              TopicExists(client, id))
              IN  RunStep(c, faults, e, TopicChecked(svc, runs.of[c], e))

RunCreateTopic(c) ==
    /\ runs.of[c].pc = "CreateTopic"
    /\ LET id == ChannelOfRun(svc, runs.of[c]).TopicID
       IN  \E faults \in FaultsOf(Rpc("CreateTopic", id)) :
              LET cr == Served(client, faults, Rpc("CreateTopic", id),
                               CreateTopic(client, id))
              IN  RunStep(c, faults, cr, TopicCreated(svc, runs.of[c], cr))

RunSubscriptionExists(c) ==
    /\ runs.of[c].pc = "Subscription.Exists"
    /\ LET id == ChannelOfRun(svc, runs.of[c]).SubscriptionID
       IN  \E faults \in FaultsOf(Rpc("Subscription.Exists", id)) :
              LET e == Served(client, faults, Rpc("Subscription.Exists", id),
                              SubscriptionExists(client, id))
              IN  RunStep(c, faults, e, SubscriptionChecked(svc, runs.of[c], e))

RunCreateSubscription(c) ==
    /\ runs.of[c].pc = "CreateSubscription"
    /\ LET ch == ChannelOfRun(svc, runs.of[c])
       IN  \E faults \in FaultsOf(Rpc("CreateSubscription", ch.SubscriptionID)) :
              LET cr == Served(client, faults,
                               Rpc("CreateSubscription", ch.SubscriptionID),
                               CreateSubscription(client, ch.SubscriptionID,
                                                  ch.TopicID))
              IN  RunStep(c, faults, cr, SubscriptionCreated(svc, runs.of[c], cr))

\* The next step of caller c.
RunOf(c) ==
    \/ StartCreateAll(c)
    \/ RunTopicExists(c)
    \/ RunCreateTopic(c)
    \/ RunSubscriptionExists(c)
    \/ RunCreateSubscription(c)

NextReconcile == \E c \in Callers : RunOf(c)

\* Every caller goes on: a call on the client returns, and a caller whose
\* CreateAll has returned calls it again.
SpecReconcile ==
    InitReconcile /\ [][NextReconcile]_vars /\ \A c \in Callers : WF_vars(RunOf(c))

(***************************************************************************)
(* Receive and ReceiveNr one step of the receive loop at a time.  The      *)
(* client runs the callback for every message it pulls on a goroutine of   *)
(* its own, several at once; it pulls no message once the context of the   *)
(* call is done or the client is closed, and sub.Receive returns when the  *)
(* callbacks that run have returned: nil if the context was cancelled, the *)
(* Canceled status if the client was closed.  The service is the fixture   *)
(* without dead-letter channel with its topics and subscription created;   *)
(* events are published on "test-channel" and received from it.            *)
(***************************************************************************)

\* The largest nrOfMessages a caller passes.
MaxNr == 2

\* The goroutines the client runs callbacks on.
Goroutines == {"g1", "g2"}

\* The events of the tests, and the payloads published with them: the two
\* of the tests and a"<
EventNames == {ev1, ev2}

EventPayloads ==
    { StringPayload(testMessage), StringPayload(testMessage2),
      StringPayload(<<97, 34, 60>>) }

\* A goroutine that runs no callback.
NoCallback == [pc |-> "idle", msg |-> EventMessage(<<>>, <<>>), seen |-> <<>>]

\* No receive call yet.  done: the context the caller passed is done;
\* cancelled: the callback of ReceiveNr has called cancel(); cb: the callbacks that run; msgs: the slice of ReceiveNr; acked:
\* the messages acknowledged; handled: the number of handler invocations
\* that have returned, late: one of them returned after the context was
\* done or the client closed; published: the payload every event was
\* published with.
NoReceiveCall ==
    [kind |-> "", pc |-> "", nr |-> 0, done |-> FALSE, cancelled |-> FALSE,
     cb |-> [g \in Goroutines |-> NoCallback],
     msgs |-> <<>>, acked |-> {}, handled |-> 0, late |-> FALSE,
     err |-> NoError, published |-> EmptyMap]

InitReceive ==
    /\ trim = NoTrim
    /\ now = 0
    /\ msgs = [m \in Slots |-> NoMessage]
    /\ svc = Configure(ReconcileProgram.chans, ReconcileProgram.options)
    /\ reg = [chans |-> ReconcileProgram.chans, options |-> ReconcileProgram.options,
              next |-> Len(ReconcileProgram.options) + 1]
    /\ client = CreateAllCall(svc, NewClient,
                              <<"test-channel", "without-subscription">>, {}).c
    /\ oper = NoOp
    /\ xlate = NoTranslate
    /\ runs = NoRuns
    /\ recv = NoReceiveCall
    /\ es = NoElasticsearch
    /\ pg = NoPostgres
    /\ app = NoAppEnv

\* Faulty variant: every event is published under the name "ev1".
PublishedEvent_sameName(eventName, payload) ==
    PublishEventCall(svc, client, "test-channel", ev1, payload, NilErr)

\* s.PublishEvent(ctx, "test-channel", eventName, payload)
PublishedEvent(eventName, payload) ==
    PublishEventCall(svc, client, "test-channel", eventName, payload, NilErr)

\* An event that has not been published is published.
ReceivePublishEvent(eventName, payload) ==
    /\ eventName \notin DOMAIN recv.published
    /\ LET r == PublishedEvent(eventName, payload)
       IN  /\ client' = r.c
           /\ recv' = IF r.err = NoError
                      THEN [recv EXCEPT !.published = SetKey(@, eventName, payload)]
                      ELSE recv
    /\ UNCHANGED <<es, pg, app, trim, svc, reg, now, msgs, oper, xlate, runs>>

\* Faulty variant: the error of sub.Receive is wrapped as it is.
ReceiveReturned_untranslated(err) ==
    IF err # NilErr
    THEN Wrapf(err, "receiving message from subscription %q failed", subID)
    ELSE NoError

\* return translateError(err, "receiving message from subscription %q failed", ...)
ReceiveReturned(err) ==
    translateError(err, "receiving message from subscription %q failed", subID)

\* s.Receive or s.ReceiveNr is called on "test-channel"; on a closed client
\* sub.Receive returns at once.
StartReceive(kind, nrOfMessages) ==
    /\ recv.pc = ""
    /\ recv' = IF client.closed
               THEN [recv EXCEPT !.kind = kind, !.nr = nrOfMessages,
                                 !.pc = "returned",
                                 !.err = ReceiveReturned(GrpcError("Canceled"))]
               ELSE [recv EXCEPT !.kind = kind, !.nr = nrOfMessages,
                                 !.pc = "receiving"]
    /\ UNCHANGED <<es, pg, app, trim, svc, reg, now, msgs, oper, xlate, runs, client>>

\* The context sub.Receive runs under is done: ctx for Receive, cctx for
\* ReceiveNr.
ContextDone == recv.done \/ recv.cancelled

\* The sequence without its i-th element
RemoveAt(seq, i) == SubSeq(seq, 1, i - 1) \o SubSeq(seq, i + 1, Len(seq))

\* The client pulls a message, any of the ones that wait, and starts the
\* callback for it on goroutine g.
Dispatch(g) ==
    /\ recv.pc = "receiving"
    /\ ~ContextDone
    /\ ~client.closed
    /\ recv.cb[g].pc = "idle"
    /\ \E i \in DOMAIN client.subs[subID].waiting :
          /\ recv' = [recv EXCEPT !.cb[g] =
                        [pc |-> IF recv.kind = "ReceiveNr" THEN "Ack" ELSE "f",
                         msg |-> client.subs[subID].waiting[i],
                         seen |-> <<>>]]
          /\ client' = [client EXCEPT !.subs[subID].waiting = RemoveAt(@, i)]
    /\ UNCHANGED <<es, pg, app, trim, svc, reg, now, msgs, oper, xlate, runs>>

\* The callback of ReceiveNr: msg.Ack(), and append reads the slice msgs
CallbackAck(g) ==
    /\ recv.cb[g].pc = "Ack"
    /\ recv' = [recv EXCEPT !.acked = @ \cup {recv.cb[g].msg},
                            !.cb[g].seen = recv.msgs,
                            !.cb[g].pc = "append"]
    /\ UNCHANGED <<es, pg, app, trim, svc, reg, now, msgs, oper, xlate, runs, client>>

\* msgs = append(msgs, &RichMessage{...}): the slice it read, with the
\* message added, is stored
CallbackAppend(g) ==
    /\ recv.cb[g].pc = "append"
    /\ recv' = [recv EXCEPT !.msgs = Append(recv.cb[g].seen, recv.cb[g].msg),
                            !.cb[g].pc = "len"]
    /\ UNCHANGED <<es, pg, app, trim, svc, reg, now, msgs, oper, xlate, runs, client>>

\* if len(msgs) >= nrOfMessages { cancel() }
CallbackCancel(g) ==
    /\ recv.cb[g].pc = "len"
    /\ recv' = [recv EXCEPT !.cancelled = @ \/ Len(recv.msgs) >= recv.nr,
                            !.cb[g] = NoCallback]
    /\ UNCHANGED <<es, pg, app, trim, svc, reg, now, msgs, oper, xlate, runs, client>>

\* The handler f of Receive returns.
HandlerReturned(g) ==
    /\ recv.cb[g].pc = "f"
    /\ recv' = [recv EXCEPT !.handled = @ + 1,
                            !.late = @ \/ ContextDone \/ client.closed,
                            !.cb[g] = NoCallback]
    /\ UNCHANGED <<es, pg, app, trim, svc, reg, now, msgs, oper, xlate, runs, client>>

\* The caller cancels the context it passed.
CancelContext ==
    /\ recv.pc = "receiving"
    /\ ~recv.done
    /\ recv' = [recv EXCEPT !.done = TRUE]
    /\ UNCHANGED <<es, pg, app, trim, svc, reg, now, msgs, oper, xlate, runs, client>>

\* sub.Receive returns, and with it Receive or ReceiveNr: the context is
\* done or the client closed, and no callback runs.
ReceiveReturn ==
    /\ recv.pc = "receiving"
    /\ \A g \in Goroutines : recv.cb[g].pc = "idle"
    /\ \E err \in (IF ContextDone THEN {NilErr} ELSE {}) \cup
                  (IF client.closed THEN {GrpcError("Canceled")} ELSE {}) :
          recv' = [recv EXCEPT !.pc = "returned",
                               !.err = ReceiveReturned(err),
                               !.msgs = IF err # NilErr THEN <<>> ELSE @]
    /\ UNCHANGED <<es, pg, app, trim, svc, reg, now, msgs, oper, xlate, runs, client>>

\* One step of goroutine g
Callback(g) ==
    \/ CallbackAck(g)
    \/ CallbackAppend(g)
    \/ CallbackCancel(g)
    \/ HandlerReturned(g)

NextReceive ==
    \/ \E eventName \in EventNames, payload \in EventPayloads :
          ReceivePublishEvent(eventName, payload)
    \/ StartReceive("Receive", 0)
    \/ \E nrOfMessages \in 1..MaxNr : StartReceive("ReceiveNr", nrOfMessages)
    \/ \E g \in Goroutines : Dispatch(g)
    \/ \E g \in Goroutines : Callback(g)
    \/ CancelContext
    \/ Close
    \/ ReceiveReturn

\* Every callback that runs goes on and returns, and sub.Receive returns
\* once it may.
SpecReceive ==
    /\ InitReceive
    /\ [][NextReceive]_vars
    /\ \A g \in Goroutines : WF_vars(Callback(g))
    /\ WF_vars(ReceiveReturn)

(***************************************************************************)
(* Elasticsearch migrations.  A migration is its ID; Migrations is the     *)
(* configured list, index the documents of the migrations index in the     *)
(* order they were indexed, one MigrationRecord per document, the document *)
(* ID being the migration ID.                                              *)
(***************************************************************************)

\* The hits a search returns when the request names no size (the request
\* of getMigrationHistory sets Index only).
DefaultSearchSize == 10

MinOf(a, b) == IF a < b THEN a ELSE b

\* getMigrationHistory: the _source of the hits of a search on the index
getMigrationHistory(index) ==
    SubSeq(index, 1, MinOf(Len(index), DefaultSearchSize))

ErrUnexpectedMigration(id, expected) ==
    [text |-> "unexpected migration id %q, was expecting id %q (you can only add new migrations at the end)",
     migration |-> id, expected |-> expected]

ErrMissingMigration(id) ==
    [text |-> "missing migration %q; you're not allowed to delete migrations that have already run",
     migration |-> id]

\* for i, migration := range s.Migrations, from position i on, and the test
\* after the loop
RECURSIVE getNewMigrationsFrom(_, _, _, _)
getNewMigrationsFrom(Migrations, records, i, newMigrations) ==
    IF i > Len(Migrations)
    THEN IF Len(records) > Len(Migrations)
         THEN [newMigrations |-> <<>>,
               err |-> ErrMissingMigration(records[Len(Migrations) + 1])]
         ELSE [newMigrations |-> newMigrations, err |-> NoError]
    ELSE IF i <= Len(records)
    THEN IF Migrations[i] # records[i]
         THEN [newMigrations |-> <<>>,
               err |-> ErrUnexpectedMigration(Migrations[i], records[i])]
         ELSE getNewMigrationsFrom(Migrations, records, i + 1, newMigrations)
    ELSE getNewMigrationsFrom(Migrations, records, i + 1,
                              Append(newMigrations, Migrations[i]))

\* Faulty variant: every configured migration that is not in the history is
\* new, wherever it stands.
getNewMigrations_anyOrder(Migrations, records) ==
    [newMigrations |->
        LET F[i \in 0..Len(Migrations)] ==
                IF i = 0 THEN <<>>
                ELSE IF \E j \in DOMAIN records : records[j] = Migrations[i]
                THEN F[i - 1] ELSE Append(F[i - 1], Migrations[i])
        IN  F[Len(Migrations)],
     err |-> NoError]

\* getNewMigrations on the records getMigrationHistory has returned
getNewMigrations(Migrations, records) ==
    getNewMigrationsFrom(Migrations, records, 1, <<>>)

\* The longest configured list, the longest history and the migration IDs
\* of the calls of getNewMigrations on its own.
MaxMigrations == 3
MaxRecords == 3
MigrationIDs == {1, 2, 3}

SeqsUpTo(S, n) == UNION { [1..k -> S] : k \in 0..n }

InitNewMigrations ==
    /\ trim = NoTrim
    /\ now = 0
    /\ msgs = [m \in Slots |-> NoMessage]
    /\ svc = NewPubSubService(<<>>)
    /\ reg = [chans |-> <<>>, options |-> <<>>, next |-> 1]
    /\ client = NewClient
    /\ oper = NoOp
    /\ xlate = NoTranslate
    /\ runs = NoRuns
    /\ recv = NoReceive
    /\ pg = NoPostgres
    /\ app = NoAppEnv
    /\ \E Migrations \in SeqsUpTo(MigrationIDs, MaxMigrations),
          records \in SeqsUpTo(MigrationIDs, MaxRecords) :
          es = [pc |-> "call", Migrations |-> Migrations, records |-> records,
                newMigrations |-> <<>>, err |-> NoError]

GetNewMigrations ==
    /\ es.pc = "call"
    /\ LET r == getNewMigrations(es.Migrations, es.records)
       IN  es' = [es EXCEPT !.pc = "done", !.newMigrations = r.newMigrations,
                            !.err = r.err]
    /\ UNCHANGED <<trim, svc, reg, now, msgs, client, oper, xlate, runs, recv, pg, app>>

NextNewMigrations == GetNewMigrations

SpecNewMigrations == InitNewMigrations /\ [][NextNewMigrations]_vars

(***************************************************************************)
(* Elasticsearch.Migrate, run after run, one migration of runMigrations at *)
(* a time, on a list of migrations 1, 2, 3, ... that only grows at its end *)
(* between the runs.                                                       *)
(***************************************************************************)

\* The longest configured list, and the number of index requests the
\* server answers with an error status.
MaxConfigured == 11
MaxInsertFaults == 1

\* PUT index/_doc/id: a document with that ID is replaced where it is, a new
\* one is added.
IndexDocument(index, id) ==
    IF \E i \in DOMAIN index : index[i] = id THEN index ELSE Append(index, id)

\* The errors of a migration and of InsertMigrationRecord
ErrMigrationFailed(id) == [text |-> "migrations %q failed", migration |-> id]

ErrInsertRecord == [text |-> "insert ES migration record", cause |-> "transport"]

InitMigrate ==
    /\ trim = NoTrim
    /\ now = 0
    /\ msgs = [m \in Slots |-> NoMessage]
    /\ svc = NewPubSubService(<<>>)
    /\ reg = [chans |-> <<>>, options |-> <<>>, next |-> 1]
    /\ client = NewClient
    /\ oper = NoOp
    /\ xlate = NoTranslate
    /\ runs = NoRuns
    /\ recv = NoReceive
    /\ pg = NoPostgres
    /\ app = NoAppEnv
    /\ \E n \in 0..MaxConfigured :
          es = [pc |-> "idle", Migrations |-> [i \in 1..n |-> i],
                exists |-> FALSE, index |-> <<>>, pending |-> <<>>,
                executed |-> {}, again |-> FALSE, statuses |-> MaxInsertFaults,
                err |-> NoError]

\* A migration is added at the end of the configured list.
AddMigration ==
    /\ es.pc = "idle"
    /\ Len(es.Migrations) < MaxConfigured
    /\ es' = [es EXCEPT !.Migrations = Append(@, Len(@) + 1)]
    /\ UNCHANGED <<trim, svc, reg, now, msgs, client, oper, xlate, runs, recv, pg, app>>

\* Migrate up to the call of runMigrations: the index is created if it is
\* not there, and getNewMigrations compares the list with the history.
Migrate ==
    /\ es.pc = "idle"
    /\ LET r == getNewMigrations(es.Migrations, getMigrationHistory(es.index))
       IN  es' = IF r.err # NoError
                 THEN [es EXCEPT !.exists = TRUE, !.err = r.err]
                 ELSE IF Len(es.Migrations) = 0 \/ r.newMigrations = <<>>
                 THEN [es EXCEPT !.exists = TRUE, !.err = NoError]
                 ELSE [es EXCEPT !.exists = TRUE, !.err = NoError,
                                 !.pc = "runMigrations",
                                 !.pending = r.newMigrations]
    /\ UNCHANGED <<trim, svc, reg, now, msgs, client, oper, xlate, runs, recv, pg, app>>

\* runMigrations has returned err.
MigrationsReturned(e, err) == [e EXCEPT !.pc = "idle", !.pending = <<>>, !.err = err]

\* The end of the loop body of runMigrations.
NextMigration(e) ==
    IF Len(e.pending) > 1 THEN [e EXCEPT !.pending = Tail(@)]
    ELSE MigrationsReturned(e, NoError)

\* The migration has run; again notes that its record was in the index.
Migrated(e) ==
    [e EXCEPT !.executed = @ \cup {Head(e.pending)},
              !.again = @ \/ \E i \in DOMAIN e.index : e.index[i] = Head(e.pending)]

\* migration.Migrate(s) returned an error.
RunMigrationFailed(e) == MigrationsReturned(e, ErrMigrationFailed(Head(e.pending)))

\* One round of the loop of runMigrations: the migration fails; or it runs
\* and its record is indexed; or it runs and the index request fails in
\* transport; or it runs and the server answers the index request with an
\* error status, which InsertMigrationRecord does not look at.
RunMigration ==
    /\ es.pc = "runMigrations"
    /\ \/ es' = RunMigrationFailed(es)
       \/ es' = NextMigration([Migrated(es) EXCEPT
                                 !.index = IndexDocument(@, Head(es.pending))])
       \/ es' = MigrationsReturned(Migrated(es), ErrInsertRecord)
       \/ /\ es.statuses > 0
          /\ es' = NextMigration([Migrated(es) EXCEPT !.statuses = @ - 1])
    /\ UNCHANGED <<trim, svc, reg, now, msgs, client, oper, xlate, runs, recv, pg, app>>

NextMigrate ==
    \/ AddMigration
    \/ Migrate
    \/ RunMigration

SpecMigrate == InitMigrate /\ [][NextMigrate]_vars

(***************************************************************************)
(* Postgres.Configure: the defaults of the config and the connect loop of  *)
(* testConnectivity, one connect attempt at a time.  Durations are in      *)
(* seconds.                                                                *)
(***************************************************************************)

defaultPostgresConnectMaxRetries == 5
defaultPostgresConnectRetryDuration == 5

\* The largest connectMaxRetries and connectRetryDuration of a config file.
MaxConnectRetries == 6
MaxRetryDuration == 1

\* The config files: without a postgres section, with one without a dsn,
\* and with a dsn and every connectMaxRetries and connectRetryDuration.
PostgresConfigs ==
    { [section |-> FALSE, dsn |-> FALSE, ConnectMaxRetries |-> 0,
       ConnectRetryDuration |-> 0],
      [section |-> TRUE, dsn |-> FALSE, ConnectMaxRetries |-> 0,
       ConnectRetryDuration |-> 0] } \cup
    { [section |-> TRUE, dsn |-> TRUE, ConnectMaxRetries |-> n,
       ConnectRetryDuration |-> d] :
         n \in (-2)..MaxConnectRetries, d \in 0..MaxRetryDuration }

errMissingPostgresConfig == [text |-> "missing postgres configuration", cause |-> ""]

errMissingPostgresDSN == [text |-> "config \"postgres.dsn\" is required", cause |-> ""]

ErrConnect(retries) ==
    [text |-> "failed to connect to postgres %q after %d retries", retries |-> retries]

InitPostgres ==
    /\ trim = NoTrim
    /\ now = 0
    /\ msgs = [m \in Slots |-> NoMessage]
    /\ svc = NewPubSubService(<<>>)
    /\ reg = [chans |-> <<>>, options |-> <<>>, next |-> 1]
    /\ client = NewClient
    /\ oper = NoOp
    /\ xlate = NoTranslate
    /\ runs = NoRuns
    /\ recv = NoReceive
    /\ es = NoElasticsearch
    /\ app = NoAppEnv
    /\ \E file \in PostgresConfigs :
          pg = [pc |-> "Configure", file |-> file,
                config |-> [ConnectMaxRetries |-> 0, ConnectRetryDuration |-> 0],
                retries |-> 0, attempts |-> 0, slept |-> 0, connected |-> FALSE,
                err |-> NoError]

\* Configure up to the call of testConnectivity
PostgresConfigure ==
    /\ pg.pc = "Configure"
    /\ pg' = IF ~pg.file.section
             THEN [pg EXCEPT !.pc = "returned", !.err = errMissingPostgresConfig]
             ELSE IF ~pg.file.dsn
             THEN [pg EXCEPT !.pc = "returned", !.err = errMissingPostgresDSN]
             ELSE [pg EXCEPT
                     !.pc = "testConnectivity",
                     !.retries = 1,
                     !.config =
                        [ConnectMaxRetries |->
                            IF pg.file.ConnectMaxRetries = 0
                            THEN defaultPostgresConnectMaxRetries
                            ELSE pg.file.ConnectMaxRetries,
                         ConnectRetryDuration |->
                            IF pg.file.ConnectRetryDuration = 0
                            THEN defaultPostgresConnectRetryDuration
                            ELSE pg.file.ConnectRetryDuration]]
    /\ UNCHANGED <<trim, svc, reg, now, msgs, client, oper, xlate, runs, recv, es, app>>

\* Faulty variant: one more attempt is made when retries has reached
\* ConnectMaxRetries.
ConnectFailed_oneMore(p) ==
    IF p.retries <= p.config.ConnectMaxRetries
    THEN [p EXCEPT !.attempts = @ + 1, !.retries = @ + 1,
                   !.slept = @ + p.config.ConnectRetryDuration]
    ELSE [p EXCEPT !.attempts = @ + 1, !.pc = "returned",
                   !.err = ErrConnect(p.config.ConnectMaxRetries)]

\* The query of an attempt failed: retry after the sleep, or give up.
ConnectFailed(p) ==
    IF p.retries < p.config.ConnectMaxRetries
    THEN [p EXCEPT !.attempts = @ + 1, !.retries = @ + 1,
                   !.slept = @ + p.config.ConnectRetryDuration]
    ELSE [p EXCEPT !.attempts = @ + 1, !.pc = "returned",
                   !.err = ErrConnect(p.config.ConnectMaxRetries)]

\* One round of the loop: pg.Connect and the test query, which succeeds or
\* fails.
Connect ==
    /\ pg.pc = "testConnectivity"
    /\ \/ pg' = [pg EXCEPT !.attempts = @ + 1, !.connected = TRUE,
                           !.pc = "returned", !.err = NoError]
       \/ pg' = ConnectFailed(pg)
    /\ UNCHANGED <<trim, svc, reg, now, msgs, client, oper, xlate, runs, recv, es, app>>

NextPostgres ==
    \/ PostgresConfigure
    \/ Connect

\* Every attempt comes to an end: the dial and the query time out.
SpecPostgres == InitPostgres /\ [][NextPostgres]_vars /\ WF_vars(NextPostgres)

(***************************************************************************)
(* AppEnv: AddService, and Configure, Init and Close one service at a      *)
(* time.  method is the method that runs or ran last, ranged the slice its *)
(* range loop goes over (ctx.Services as it was when the loop began),      *)
(* calls the services it has called, in order, each with its position in   *)
(* that slice, and errs the positions whose call returned an error.        *)
(***************************************************************************)

\* The largest number of services registered.
MaxServices == 3

ServiceNames == {"postgres", "elasticsearch", "pubsub"}

\* NewAppEnv: Services: make([]AppService, 0)
NewAppEnv ==
    [pc |-> "idle", Services |-> <<>>, ranged |-> <<>>, method |-> "",
     calls |-> <<>>,
     errs |-> {}, logged |-> <<>>]

InitAppEnv ==
    /\ trim = NoTrim
    /\ now = 0
    /\ msgs = [m \in Slots |-> NoMessage]
    /\ svc = NewPubSubService(<<>>)
    /\ reg = [chans |-> <<>>, options |-> <<>>, next |-> 1]
    /\ client = NewClient
    /\ oper = NoOp
    /\ xlate = NoTranslate
    /\ runs = NoRuns
    /\ recv = NoReceive
    /\ es = NoElasticsearch
    /\ pg = NoPostgres
    /\ app = NewAppEnv

\* ctx.Services = append(ctx.Services, service)
AddService(service) ==
    /\ app.pc = "idle"
    /\ Len(app.Services) < MaxServices
    /\ app' = [app EXCEPT !.Services = Append(@, service)]
    /\ UNCHANGED <<trim, svc, reg, now, msgs, client, oper, xlate, runs, recv, es, pg>>

\* Configure, Init or Close is called; Close also by a deferred call after
\* a panic.
StartMethod(method) ==
    /\ app.pc = "idle" \/ (app.pc = "panicked" /\ method = "Close")
    /\ app' = [app EXCEPT !.pc = "range", !.method = method,
                          !.ranged = app.Services, !.calls = <<>>,
                          !.errs = {}, !.logged = <<>>]
    /\ UNCHANGED <<trim, svc, reg, now, msgs, client, oper, xlate, runs, recv, es, pg>>

\* The service the range loop is at, and its position
Position(a) == Len(a.calls) + 1

Called(a) == Append(a.calls, [at |-> Position(a), service |-> a.ranged[Position(a)]])

\* Faulty variant: the error of Configure or Init is logged and the loop
\* goes on.
ServiceReturned_goesOn(a, failed) ==
    IF failed
    THEN [a EXCEPT !.calls = Called(a), !.errs = @ \cup {Position(a)},
                   !.logged = Append(@, a.ranged[Position(a)])]
    ELSE [a EXCEPT !.calls = Called(a)]

\* service.Configure(ctx) or service.Init() has returned: an error is
\* logged at panic level, which panics.
ServiceReturned(a, failed) ==
    IF failed
    THEN [a EXCEPT !.calls = Called(a), !.errs = @ \cup {Position(a)},
                   !.logged = Append(@, a.ranged[Position(a)]),
                   !.pc = "panicked"]
    ELSE [a EXCEPT !.calls = Called(a)]

\* Faulty variant: Close returns at the first error.
ServiceClosed_returns(a, failed) ==
    IF failed
    THEN [a EXCEPT !.calls = Called(a), !.errs = @ \cup {Position(a)},
                   !.logged = Append(@, a.ranged[Position(a)]),
                   !.pc = "idle"]
    ELSE [a EXCEPT !.calls = Called(a)]

\* service.Close() has returned: an error is logged at error level.
ServiceClosed(a, failed) ==
    IF failed
    THEN [a EXCEPT !.calls = Called(a), !.errs = @ \cup {Position(a)},
                   !.logged = Append(@, a.ranged[Position(a)])]
    ELSE [a EXCEPT !.calls = Called(a)]

\* One round of the range loop of Configure, Init or Close: the method of
\* the service is called and returns an error or none.
CallService ==
    /\ app.pc = "range"
    /\ Position(app) <= Len(app.ranged)
    /\ \E failed \in BOOLEAN :
          app' = IF app.method = "Close"
                 THEN ServiceClosed(app, failed)
                 ELSE ServiceReturned(app, failed)
    /\ UNCHANGED <<trim, svc, reg, now, msgs, client, oper, xlate, runs, recv, es, pg>>

\* The range loop is over and the method returns.
MethodReturns ==
    /\ app.pc = "range"
    /\ Position(app) > Len(app.ranged)
    /\ app' = [app EXCEPT !.pc = "idle"]
    /\ UNCHANGED <<trim, svc, reg, now, msgs, client, oper, xlate, runs, recv, es, pg>>

NextAppEnv ==
    \/ \E service \in ServiceNames : AddService(service)
    \/ \E method \in {"Configure", "Init", "Close"} : StartMethod(method)
    \/ CallService
    \/ MethodReturns

SpecAppEnv == InitAppEnv /\ [][NextAppEnv]_vars

(***************************************************************************)
(* The claims.  A call is described by the record msgs[m].call: the        *)
(* operation, the age of the message when it was called, the number of     *)
(* Ack, Nack and publish calls made for the message before it (acks0,      *)
(* nacks0, pubs0), the result of the publish, and the error returned.      *)
(***************************************************************************)

HasDeadLetter == svc.DeadLetterChannel # Nil

MaxRetryAgeOf(m) == svc.mem[msgs[m].Channel].MaxRetryAge

IsPrefix(a, b) == Len(a) <= Len(b) /\ SubSeq(b, 1, Len(a)) = a

\* C1: RetryableError on a message whose age is at most its channel's
\* MaxRetryAge calls Nack, publishes nothing and returns no error.
C1_WithinRetryAgeNacks ==
    \A m \in Slots :
        LET x == msgs[m] IN
        (x.call.op = "RetryableError" /\ x.call.age <= MaxRetryAgeOf(m)) =>
            /\ x.st = "handler"
            /\ x.call.done
            /\ x.nacks = x.call.nacks0 + 1
            /\ x.acks = x.call.acks0
            /\ x.pubs = x.call.pubs0
            /\ ~x.out.sent
            /\ x.call.ret = NoError

\* RetryableError has returned for a message exactly MaxRetryAge = 2 minutes old.
C1_Witness ==
    \E m \in Slots :
        /\ msgs[m].call.op = "RetryableError"
        /\ msgs[m].call.done
        /\ MaxRetryAgeOf(m) = DefaultMaxRetryAge
        /\ msgs[m].call.age = MaxRetryAgeOf(m)
        /\ msgs[m].nacks = msgs[m].call.nacks0 + 1

\* C2: with a dead-letter channel, RetryableError on a message older than
\* its channel's MaxRetryAge publishes exactly one copy to the dead-letter
\* topic; when the publish succeeded the original is ACK'ed and no error is
\* returned; it is never NACK'ed without the publish having been attempted.
C2_ExpiredIsDeadLettered ==
    \A m \in Slots :
        LET x == msgs[m] IN
        (x.call.op = "RetryableError" /\ x.call.age > MaxRetryAgeOf(m)
            /\ HasDeadLetter) =>
            /\ x.st \in {"publishing", "handler"}
            /\ x.pubs = x.call.pubs0 + 1
            /\ x.st = "publishing" =>
                    x.out.topic = svc.mem[svc.DeadLetterChannel].TopicID
            /\ x.call.published = "ok" =>
                    x.acks = x.call.acks0 + 1 /\ x.call.ret = NoError
            /\ x.nacks > x.call.nacks0 => x.call.published = "failed"

\* What remains of C2 when the call does not panic in trimLeftBytes.
C2_ExpiredIsDeadLetteredUnlessPanic ==
    \A m \in Slots :
        LET x == msgs[m] IN
        (x.call.op = "RetryableError" /\ x.call.age > MaxRetryAgeOf(m)
            /\ HasDeadLetter /\ x.st # "panicked") =>
            /\ x.st \in {"publishing", "handler"}
            /\ x.pubs = x.call.pubs0 + 1
            /\ x.st = "publishing" =>
                    x.out.topic = svc.mem[svc.DeadLetterChannel].TopicID
            /\ x.call.published = "ok" =>
                    x.acks = x.call.acks0 + 1 /\ x.call.ret = NoError
            /\ x.nacks > x.call.nacks0 => x.call.published = "failed"

\* C3: with a dead-letter channel, DeadLetter ACKs the original and returns
\* nil when the publish succeeded, NACKs it and returns an error wrapping the
\* publish error when the publish failed; exactly one of Ack and Nack is
\* called, and none while the publish result is outstanding.
C3_DispositionFollowsPublish ==
    \A m \in Slots :
        LET x == msgs[m] IN
        (x.call.op = "DeadLetter" /\ HasDeadLetter) =>
            /\ x.st = "publishing" =>
                    /\ x.acks = x.call.acks0
                    /\ x.nacks = x.call.nacks0
                    /\ x.call.published = ""
            /\ x.call.done =>
                \/ /\ x.call.published = "ok"
                   /\ x.acks = x.call.acks0 + 1
                   /\ x.nacks = x.call.nacks0
                   /\ x.call.ret = NoError
                \/ /\ x.call.published = "failed"
                   /\ x.nacks = x.call.nacks0 + 1
                   /\ x.acks = x.call.acks0
                   /\ x.call.ret.text # ""
                   /\ x.call.ret.cause \in PublishErrors

\* DeadLetter has returned after a failed publish.
C3_Witness ==
    \E m \in Slots :
        /\ msgs[m].call.op = "DeadLetter"
        /\ msgs[m].call.done
        /\ HasDeadLetter
        /\ msgs[m].call.published = "failed"
        /\ msgs[m].nacks = msgs[m].call.nacks0 + 1

\* C4: without a dead-letter channel DeadLetter returns the error "no
\* deadletter channel configured" and publishes, ACKs and NACKs nothing.
C4_NoDeadLetterChannel ==
    \A m \in Slots :
        LET x == msgs[m] IN
        (x.call.op = "DeadLetter" /\ ~HasDeadLetter) =>
            /\ x.st = "handler"
            /\ x.call.done
            /\ x.call.ret = ErrNoDeadLetter
            /\ x.acks = x.call.acks0
            /\ x.nacks = x.call.nacks0
            /\ x.pubs = x.call.pubs0
            /\ ~x.out.sent

\* DeadLetter has returned on a service without a dead-letter channel.
C4_Witness ==
    \E m \in Slots :
        /\ msgs[m].call.op = "DeadLetter"
        /\ msgs[m].call.done
        /\ ~HasDeadLetter
        /\ msgs[m].call.ret = ErrNoDeadLetter

\* C5: without a dead-letter channel RetryableError NACKs the message,
\* whatever its age.
C5_AlwaysNackedWithoutDeadLetter ==
    \A m \in Slots :
        LET x == msgs[m] IN
        (x.call.op = "RetryableError" /\ ~HasDeadLetter) =>
            x.call.done /\ x.nacks = x.call.nacks0 + 1

DeadLetterKeys ==
    {"originalMessageID", "originalTopicID", "originalSubscriptionID",
     "error", "deadLetterCount"}

\* C6: the copy DeadLetter publishes goes to the dead-letter topic with the
\* original Data; its attributes are the original ones plus
\* originalMessageID, originalTopicID, originalSubscriptionID, error (the
\* cause text, cut to at most 1024 bytes) and deadLetterCount; every other
\* key keeps its value.
C6_DeadLetterCopy ==
    \A m \in Slots :
        LET x == msgs[m]
            a == x.out.Attributes
            cause == CauseText[x.call.cause]
        IN
        x.st = "publishing" =>
            /\ x.out.topic = svc.mem[svc.DeadLetterChannel].TopicID
            /\ x.out.Data = x.Data
            /\ DOMAIN a = (DOMAIN x.Attributes) \cup DeadLetterKeys
            /\ a["originalMessageID"] = x.ID
            /\ a["originalTopicID"] = svc.mem[x.Channel].TopicID
            /\ a["originalSubscriptionID"] = svc.mem[x.Channel].SubscriptionID
            /\ IsPrefix(a["error"], cause)
            /\ Len(a["error"]) <= MaxAttrBytes
            /\ Len(cause) <= MaxAttrBytes => a["error"] = cause
            /\ \A k \in (DOMAIN x.Attributes) \ DeadLetterKeys : a[k] = x.Attributes[k]

\* A copy of an event is being published with a cause text that was cut.
C6_Witness ==
    \E m \in Slots :
        /\ msgs[m].st = "publishing"
        /\ msgs[m].call.cause = "straddle"
        /\ "event" \in DOMAIN msgs[m].Attributes
        /\ msgs[m].out.Attributes["event"] = ev1
        /\ Len(msgs[m].out.Attributes["error"]) = MaxAttrBytes - 2

\* The integer after i, without a limit on its size.
Successor(i) ==
    IF i.neg
    THEN LET n == StripZeros(DecDigits(i.mag)) IN [neg |-> n # <<0>>, mag |-> n]
    ELSE [neg |-> FALSE, mag |-> IncDigits(i.mag)]

\* C7: the published deadLetterCount is the original value plus 1 in base
\* 10 when the original attributes hold one that parses as an integer, and
\* "1" otherwise (absent, or not an integer).
C7_DeadLetterCount ==
    \A m \in Slots :
        LET x == msgs[m]
            i == ParseInt(x.Attributes["deadLetterCount"])
        IN
        x.st = "publishing" =>
            x.out.Attributes["deadLetterCount"] =
                IF "deadLetterCount" \in DOMAIN x.Attributes /\ i.ok
                THEN FormatInt(Successor(i))
                ELSE <<49>>

\* The text of an integer >= 1: digits only, not all of them 0.
IsPositiveInteger(v) ==
    /\ v # <<>>
    /\ \A k \in 1..Len(v) : IsDigit(v[k])
    /\ \E k \in 1..Len(v) : v[k] # 48

\* C8: every published deadLetterCount is the text of an integer >= 1.
C8_DeadLetterCountPositive ==
    \A m \in Slots :
        msgs[m].st = "publishing" =>
            IsPositiveInteger(msgs[m].out.Attributes["deadLetterCount"])

\* The bytes of the first j code points of rs.
RunePrefix(rs, j) == Flatten(SubSeq(rs, 1, j))

\* The longest prefix of whole code points of rs that has at most n bytes.
LongestRunePrefix(rs, n) ==
    LET fits == { j \in 0..Len(rs) : Len(RunePrefix(rs, j)) <= n }
    IN  RunePrefix(rs, CHOOSE j \in fits : \A i \in fits : i <= j)

\* C9: on valid UTF-8, trimLeftBytes(s, n) returns the longest prefix of s
\* of at most n bytes that ends where a code point ends.
C9_TrimKeepsWholeRunes ==
    trim.kind = "runes" =>
        /\ trim.pc # "panic"
        /\ trim.pc = "done" => trim.res = LongestRunePrefix(trim.runes, trim.maxBytes)

\* Three 3-byte code points cut to 5 bytes give the first of them.
C9_Witness ==
    /\ trim.pc = "done"
    /\ trim.runes = <<RuneNichi, RuneHon, RuneGo>>
    /\ trim.maxBytes = 5
    /\ trim.res = RuneNichi

\* Channels the registry holds.
Registered(s) ==
    { s.Channels[id] : id \in DOMAIN s.Channels } \cup ({s.DeadLetterChannel} \ {Nil})

\* C10: every registered channel that was given with MaxRetryAge zero has
\* MaxRetryAge 2 minutes, as a regular channel and as the dead-letter
\* channel; any other MaxRetryAge is kept.
C10_DefaultMaxRetryAge ==
    \A ch \in Registered(svc) :
        svc.mem[ch].MaxRetryAge =
            IF reg.chans[ch].MaxRetryAge = 0
            THEN DefaultMaxRetryAge
            ELSE reg.chans[ch].MaxRetryAge

\* C11: whenever DeadLetterChannel is set, Channels holds that same channel
\* under its ID, and a dead-letter channel that was given with an empty ID
\* has the ID "dead-letter".
C11_DeadLetterRegistered ==
    svc.DeadLetterChannel # Nil =>
        LET dl == svc.DeadLetterChannel
            id == svc.mem[dl].ID
        IN  /\ id \in DOMAIN svc.Channels
            /\ svc.Channels[id] = dl
            /\ reg.chans[dl].ID = "" => id = defaultDeadLetterName

\* The methods of the Service that take a channel ID and use the transport.
ChannelMethods == {"PublishEvent", "Receive", "ReceiveNr", "DeleteChannel"}

\* The channel ID of the last call is registered.
KnownChannel == oper.args.channel \in DOMAIN svc.Channels

\* C12: looking up a channel ID that is not registered yields a not-found
\* error, never just the nil channel.
C12_LookupNotFound ==
    (oper.name = "Channel" /\ ~KnownChannel) =>
        /\ oper.err # NoError
        /\ oper.err.text = "channel %q not found"

\* C13: PublishEvent, Receive, ReceiveNr and DeleteChannel with a channel ID
\* that is not registered return "channel not found", make no call on the
\* client and leave the transport as it was; PublishEvent with a payload
\* that does not serialize returns the marshal error and publishes nothing.
C13_ConfigurationErrors ==
    [][ /\ (oper'.name \in ChannelMethods
            /\ oper'.args.channel \notin DOMAIN svc.Channels) =>
               /\ oper'.err = ErrChannelNotFound(oper'.args.channel)
               /\ oper'.log = <<>>
               /\ oper'.handled = 0
               /\ client' = client
        /\ (oper'.name = "PublishEvent"
            /\ oper'.args.channel \in DOMAIN svc.Channels
            /\ Marshal(oper'.args.payload).err # NilErr) =>
               /\ oper'.err.text = "failed to marshal payload for event %q on t %q"
               /\ oper'.log = <<>>
               /\ client' = client ]_vars

\* A payload that does not serialize was passed for a channel whose topic
\* exists on an open client, and a call named a channel nobody registered.
C13_Witness ==
    /\ oper.name = "PublishEvent"
    /\ oper.args.channel = "test-channel"
    /\ oper.args.payload = Inf
    /\ oper.err.text = "failed to marshal payload for event %q on t %q"
    /\ topicID \in client.topics
    /\ subID \in DOMAIN client.subs
    /\ ~client.closed

\* The channel the last call named; the channel is registered.
ChannelOfCall == svc.mem[svc.Channels[oper.args.channel]]

\* C14: Receive on a registered channel without a subscription returns the
\* "does not have a subscription" error, opens no receive loop and never
\* calls the handler.
C14_ReceiveWithoutSubscription ==
    (oper.name = "Receive" /\ KnownChannel /\ ChannelOfCall.SubscriptionID = <<>>) =>
        /\ oper.err = ErrNoSubscription(oper.args.channel)
        /\ oper.log = <<>>
        /\ oper.handled = 0

\* Receive was called on the publish-only channel of the fixture, on an
\* open client.
C14_Witness ==
    /\ oper.name = "Receive"
    /\ oper.args.channel = "without-subscription"
    /\ KnownChannel
    /\ oper.err = ErrNoSubscription("without-subscription")
    /\ ~client.closed

\* In the calls the last method made, every CreateSubscription for the
\* subscription of channel ch comes after the Topic.Exists of EnsureTopic
\* for the topic of ch.
TopicEnsuredFirst(ch) ==
    \A i \in DOMAIN oper.log :
        (oper.log[i] = Rpc("CreateSubscription", ch.SubscriptionID)) =>
            \E j \in 1..(i - 1) : oper.log[j] = Rpc("Topic.Exists", ch.TopicID)

Creates(log) ==
    { i \in DOMAIN log : log[i].rpc \in {"CreateTopic", "CreateSubscription"} }

\* C16: on an open client whose server fails no call, EnsureTopic and
\* EnsureSubscription for a resource that exists make no create call, return no error and change nothing;
\* CreateAll right after a CreateAll that returned no error makes no create
\* call, returns no error and leaves the topics and subscriptions as they
\* were.
C16_ReconcileIdempotent ==
    [][ /\ (oper'.name = "EnsureTopic" /\ ~client.closed
            /\ oper'.args.faults = {}
            /\ oper'.args.topicID \in client.topics) =>
               (oper'.err = NoError /\ Creates(oper'.log) = {} /\ client' = client)
        /\ (oper'.name = "EnsureSubscription" /\ ~client.closed
            /\ oper'.args.faults = {}
            /\ oper'.args.subID \in DOMAIN client.subs) =>
               (oper'.err = NoError /\ Creates(oper'.log) = {} /\ client' = client)
        /\ (oper.name = "CreateAll" /\ oper.err = NoError
            /\ oper'.name = "CreateAll" /\ oper'.args.faults = {}) =>
               (oper'.err = NoError /\ Creates(oper'.log) = {} /\ client' = client)
      ]_vars

\* CreateAll has run on a service with a dead-letter channel whose topics
\* and subscriptions all existed: it asked for each and created none.
C16_Witness ==
    /\ oper.name = "CreateAll"
    /\ oper.err = NoError
    /\ HasDeadLetter
    /\ Cardinality(DOMAIN svc.Channels) = 3
    /\ Len(oper.log) = 5
    /\ Creates(oper.log) = {}
    /\ ~client.closed

\* The topic of channel ch and, if it has one, its subscription are gone.
Deleted(ch) ==
    /\ ch.TopicID \notin client.topics
    /\ ch.SubscriptionID # <<>> => ch.SubscriptionID \notin DOMAIN client.subs

\* In the calls of the last method the subscription of ch is asked for and
\* deleted before its topic is.
SubscriptionFirst(ch) ==
    \A i, j \in DOMAIN oper.log :
        (/\ oper.log[i].rpc \in {"Subscription.Exists", "Subscription.Delete"}
         /\ oper.log[i].id = ch.SubscriptionID
         /\ oper.log[j].rpc \in {"Topic.Exists", "Topic.Delete"}
         /\ oper.log[j].id = ch.TopicID) => i < j

\* C17: DeleteChannel on a registered channel deletes the subscription
\* before the topic, returns no error on an open client whether or not the
\* two exist, and after a return without error neither exists; DeleteAll
\* does so for every channel of the registry.
C17_DeleteChannel ==
    /\ (oper.name = "DeleteChannel" /\ KnownChannel) =>
          /\ SubscriptionFirst(ChannelOfCall)
          /\ ~client.closed => oper.err = NoError
          /\ oper.err = NoError => Deleted(ChannelOfCall)
          /\ \A i \in DOMAIN oper.log :
                oper.log[i].rpc \in {"Topic.Delete", "Subscription.Delete"} =>
                    i > 1 /\ oper.log[i - 1].id = oper.log[i].id
    /\ (oper.name = "DeleteAll") =>
          /\ ~client.closed => oper.err = NoError
          /\ oper.err = NoError =>
                \A id \in DOMAIN svc.Channels : Deleted(svc.mem[svc.Channels[id]])

\* DeleteChannel has deleted the subscription and then the topic of the
\* fixture's channel.
C17_Witness ==
    /\ oper.name = "DeleteChannel"
    /\ oper.args.channel = "test-channel"
    /\ oper.err = NoError
    /\ oper.log = << Rpc("Subscription.Exists", subID), Rpc("Subscription.Delete", subID),
                     Rpc("Topic.Exists", topicID), Rpc("Topic.Delete", topicID) >>

\* The methods the closed error is promised for.
ClosedMethods == {"PublishEvent", "ReceiveNr", "DeleteChannel", "DeleteAll"}

\* C18: on a closed Service every call of PublishEvent, ReceiveNr and
\* DeleteChannel (for a registered channel and a payload that serializes)
\* and every call of DeleteAll returns ErrClosed, whatever the registry
\* holds, the registry without channels included.
C18_ClosedError ==
    (/\ client.closed
     /\ oper.name \in ClosedMethods
     /\ oper.name # "DeleteAll" => KnownChannel
     /\ Marshal(oper.args.payload).err = NilErr) =>
        oper.err = ErrClosed

\* The same for the calls that reach the client, which DeleteAll does when
\* the registry is not empty.
C18_ClosedErrorFromClient ==
    (client.closed /\ oper.name \in ClosedMethods /\ oper.log # <<>>) =>
        oper.err = ErrClosed

\* The publish, receive and delete methods.
TransportMethods == {"PublishEvent", "Receive", "ReceiveNr", "DeleteChannel", "DeleteAll"}

\* The call described by o names a registered channel (with a subscription,
\* for Receive) and a payload that serializes; DeleteAll takes no argument.
WellFormed(o) ==
    /\ o.name # "DeleteAll" => o.args.channel \in DOMAIN svc.Channels
    /\ o.name = "Receive" =>
          svc.mem[svc.Channels[o.args.channel]].SubscriptionID # <<>>
    /\ Marshal(o.args.payload).err = NilErr

\* C19: once the Service is closed it stays closed, no method changes the
\* topics, the subscriptions or the messages that wait, and every publish,
\* receive and delete method fails with ErrClosed.
C19_ClosedIsFinal ==
    [][ client.closed =>
          /\ client'.closed
          /\ client' = client
          /\ (oper'.name \in TransportMethods /\ WellFormed(oper')) =>
                oper'.err = ErrClosed ]_vars

\* The part of C19 that is about the transport: a closed Service stays
\* closed and no method has an effect on the transport.
C19_ClosedStaysClosed ==
    [][ client.closed => (client'.closed /\ client' = client) ]_vars

\* C20: Close on a closed Service leaves it closed, changes nothing else
\* and writes the client's error to the log.
C20_CloseIdempotent ==
    [][ (oper'.name = "Close" /\ client.closed) =>
          /\ client'.closed
          /\ client' = client
          /\ oper'.err = NoError
          /\ oper'.logged = "failed closing pubsub Service gracefully" ]_vars

\* Close was called on a Service that was closed already.
C20_Witness ==
    /\ oper.name = "Close"
    /\ oper.logged = "failed closing pubsub Service gracefully"
    /\ client.closed
    /\ DOMAIN svc.Channels # {}

\* The error stands for a cancelled or closed connection: the gRPC status
\* Canceled, or the error of a cancelled or expired context.
IsShutdown(err) ==
    \/ err.grpc /\ err.code = "Canceled"
    \/ ~err.grpc /\ err.code \in ContextErrors

\* C21: translateError maps nil to nil, maps an error to ErrClosed exactly
\* when it stands for a cancelled or closed connection, and wraps every
\* other error with the message, keeping its cause.
C21_TranslateError ==
    (xlate.pc = "done") =>
        /\ xlate.err = NilErr => xlate.res = NoError
        /\ xlate.err # NilErr => (xlate.res = ErrClosed <=> IsShutdown(xlate.err))
        /\ (xlate.err # NilErr /\ ~IsShutdown(xlate.err)) =>
              xlate.res = Wrapf(xlate.err, xlate.wrapMsg, xlate.id)

\* The same for nil and the errors that carry a gRPC status.
C21_TranslateStatusError ==
    (xlate.pc = "done" /\ (xlate.err = NilErr \/ xlate.err.grpc)) =>
        /\ xlate.err = NilErr => xlate.res = NoError
        /\ xlate.err # NilErr => (xlate.res = ErrClosed <=> IsShutdown(xlate.err))
        /\ (xlate.err # NilErr /\ ~IsShutdown(xlate.err)) =>
              xlate.res = Wrapf(xlate.err, xlate.wrapMsg, xlate.id)

\* The envelope in slot m has been ACK'ed or NACK'ed.
Disposed(m) == msgs[m].st # "none" /\ msgs[m].acks + msgs[m].nacks >= 1

\* C24: once an envelope has been ACK'ed or NACK'ed it is in a terminal
\* state: no later call publishes it to the dead-letter topic (the client
\* itself ignores every Ack and Nack after the first).
C24_NoPublishAfterDisposition ==
    [][ \A m \in Slots :
          (Disposed(m) /\ msgs'[m].st # "none") =>
              msgs'[m].pubs = msgs[m].pubs ]_vars

\* C28: DeadLetter, or RetryableError on an over-age envelope, whose publish
\* meets the closed Service returns ErrClosed itself.
C28_DeadLetterOnClosedService ==
    \A m \in DOMAIN msgs :
        (/\ msgs[m].call.done
         /\ msgs[m].call.op \in {"DeadLetter", "RetryableError"}
         /\ msgs[m].call.closed) =>
            msgs[m].call.ret = ErrClosed

\* C30: DeadLetter never writes to the envelope's own Attributes, whatever
\* its outcome, and the attributes published for an envelope are its own
\* attributes and the dead-letter keys of that envelope, also while another
\* handler dead-letters another envelope.
C30_AttributesCloned ==
    [][ \A m \in DOMAIN msgs :
          /\ (msgs[m].st # "none" /\ msgs'[m].st # "none") =>
                msgs'[m].Attributes = msgs[m].Attributes
          /\ msgs'[m].out.sent =>
                /\ \A k \in DOMAIN msgs'[m].out.Attributes \ DeadLetterKeys :
                      /\ k \in DOMAIN msgs'[m].Attributes
                      /\ msgs'[m].out.Attributes[k] = msgs'[m].Attributes[k]
                /\ \A k \in DOMAIN msgs'[m].Attributes \ DeadLetterKeys :
                      k \in DOMAIN msgs'[m].out.Attributes
                /\ msgs'[m].out.Attributes["originalMessageID"] = msgs'[m].ID
                /\ msgs'[m].out.Attributes["error"] =
                      ErrorAttribute[msgs'[m].call.cause] ]_vars

\* Two handlers wait for the publish of their dead-letter copies at the same
\* time.
C30_Witness ==
    /\ msgs["m1"].st = "publishing"
    /\ msgs["m2"].st = "publishing"
    /\ msgs["m1"].out.Attributes # msgs["m2"].out.Attributes
    /\ msgs["m2"].Attributes = HandlerAttributes["m2"]

\* C25: ReceiveNr on a registered channel without a subscription returns the
\* "does not have a subscription" error and opens no receive loop on the
\* client.
C25_ReceiveNrWithoutSubscription ==
    (oper.name = "ReceiveNr" /\ KnownChannel /\ ChannelOfCall.SubscriptionID = <<>>) =>
        /\ oper.err = ErrNoSubscription(oper.args.channel)
        /\ oper.log = <<>>

\* The call on the client an error of EnsureTopic or EnsureSubscription
\* comes from.
FailedRpc(err) ==
    Rpc(CASE err.text = "checking if topic %s exists" -> "Topic.Exists"
          [] err.text = "creating topic %s" -> "CreateTopic"
          [] err.text = "checking if subscriptions %s exists" -> "Subscription.Exists"
          [] err.text = "creating subscription %s" -> "CreateSubscription"
          [] OTHER -> "",
        err.id)

\* C26: when CreateAll returns an error, that is the error of the last call
\* it made on the client and of the first call the server failed: no call
\* follows it, and nothing is rolled back: every topic and subscription that
\* existed before or was created earlier in the run exists afterwards.
C26_CreateAllFailsFast ==
    [][ (oper'.name = "CreateAll" /\ oper'.err # NoError) =>
          LET log == oper'.log
          IN  /\ Len(log) >= 1
              /\ log[Len(log)] = FailedRpc(oper'.err)
              /\ oper'.err.cause \in {"Unavailable", "Canceled"}
              /\ \A i \in 1..(Len(log) - 1) :
                    /\ log[i] \notin oper'.args.faults
                    /\ log[i].rpc = "CreateTopic" =>
                          (log[i].id \notin client.topics
                           /\ log[i].id \in client'.topics)
                    /\ log[i].rpc = "CreateSubscription" =>
                          (log[i].id \notin DOMAIN client.subs
                           /\ log[i].id \in DOMAIN client'.subs)
              /\ client.topics \subseteq client'.topics
              /\ DOMAIN client.subs \subseteq DOMAIN client'.subs
              /\ client.closed => Len(log) = 1 ]_vars

\* CreateAll created the topic of the main channel and then failed to
\* create its subscription: the topic is there, the subscription is not.
C26_Witness ==
    /\ oper.name = "CreateAll"
    /\ oper.err = Wrapf(GrpcError("Unavailable"), "creating subscription %s", subID)
    /\ \E i \in DOMAIN oper.log : oper.log[i] = Rpc("CreateTopic", topicID)
    /\ topicID \in client.topics
    /\ subID \notin DOMAIN client.subs
    /\ ~client.closed

\* Every topic and every subscription of the registry exists.
AllRegisteredExist ==
    /\ RegisteredTopics(svc) \subseteq client.topics
    /\ RegisteredSubscriptions(svc) \subseteq DOMAIN client.subs

\* The CreateAll of caller c has returned nil.
ReturnedNil(c) == runs.of[c].pc = "done" /\ runs.of[c].err = NoError

\* C27: from any subset of the registered topics and subscriptions, with a
\* server that fails only a bounded number of calls and two callers whose
\* CreateAll runs interleave, repeated CreateAll eventually reaches the
\* state in which every registered topic and subscription exists, for good,
\* and the CreateAll of every caller returns nil again and again.
C27_CreateAllConverges ==
    /\ <>[]AllRegisteredExist
    /\ \A c \in Callers : []<>ReturnedNil(c)

\* Two runs raced for the same resource: one lost the create with
\* AlreadyExists, and afterwards everything exists and the other has
\* returned nil.
C27_Witness ==
    /\ AllRegisteredExist
    /\ ReturnedNil("a")
    /\ runs.of["b"].pc = "done"
    /\ runs.of["b"].err # NoError
    /\ runs.of["b"].err.cause = "AlreadyExists"

\* C22: when ReceiveNr returns without error and the caller has not
\* cancelled its context, it returns exactly
\* nrOfMessages messages, and these are the messages it has acknowledged:
\* none is missing from the list and none is added beyond the count, also
\* when the callbacks of several messages ran at once.
C22_ReceiveNrExactCount ==
    (/\ recv.pc = "returned" /\ recv.kind = "ReceiveNr" /\ recv.err = NoError
     /\ ~recv.done) =>
        /\ Len(recv.msgs) = recv.nr
        /\ { recv.msgs[i] : i \in DOMAIN recv.msgs } = recv.acked

\* The value of a hexadecimal digit in lower case
HexValue(d) == IF d >= 97 THEN d - 87 ELSE d - 48

\* The bytes a JSON string body stands for; <<-1>> marks a body that is not
\* well formed.
RECURSIVE UnescapeBytes(_)
UnescapeBytes(bytes) ==
    IF bytes = <<>> THEN <<>>
    ELSE IF Head(bytes) = 34 THEN <<-1>>
    ELSE IF Head(bytes) # 92 THEN <<Head(bytes)>> \o UnescapeBytes(Tail(bytes))
    ELSE IF Len(bytes) < 2 THEN <<-1>>
    ELSE IF bytes[2] \in {34, 92}
    THEN <<bytes[2]>> \o UnescapeBytes(SubSeq(bytes, 3, Len(bytes)))
    ELSE IF bytes[2] = 110 THEN <<10>> \o UnescapeBytes(SubSeq(bytes, 3, Len(bytes)))
    ELSE IF bytes[2] = 114 THEN <<13>> \o UnescapeBytes(SubSeq(bytes, 3, Len(bytes)))
    ELSE IF bytes[2] = 116 THEN <<9>> \o UnescapeBytes(SubSeq(bytes, 3, Len(bytes)))
    ELSE IF bytes[2] = 117 /\ Len(bytes) >= 6 /\ bytes[3] = 48 /\ bytes[4] = 48
    THEN <<16 * HexValue(bytes[5]) + HexValue(bytes[6])>>
            \o UnescapeBytes(SubSeq(bytes, 7, Len(bytes)))
    ELSE <<-1>>

\* The string a JSON document stands for, if it is a string
UnmarshalString(data) ==
    IF Len(data) >= 2 /\ data[1] = 34 /\ data[Len(data)] = 34
    THEN UnescapeBytes(SubSeq(data, 2, Len(data) - 1))
    ELSE <<-1>>

\* The messages Receive or ReceiveNr has handed out so far, or holds.
Received ==
    { recv.msgs[i] : i \in DOMAIN recv.msgs } \cup
    { recv.cb[g].msg : g \in { h \in Goroutines : recv.cb[h].pc # "idle" } }

\* findEvent of the tests: the first message with the event name
findEvent(list, eventName) ==
    list[CHOOSE i \in DOMAIN list :
            /\ list[i].Attributes["event"] = eventName
            /\ \A j \in 1..(i - 1) : list[j].Attributes["event"] # eventName]

\* C23: every message received on the subscription of the channel carries
\* the name of a published event as its only attribute, event, and as Data
\* the JSON encoding of the payload published under that name (the payload
\* in double quotes when it needs no escapes); of the messages ReceiveNr
\* returns, the one found by an event name has the payload of that event,
\* in whatever order the messages were delivered.
C23_EventDelivered ==
    /\ \A m \in Received :
          /\ DOMAIN m.Attributes = {"event"}
          /\ m.Attributes["event"] \in DOMAIN recv.published
          /\ UnmarshalString(m.Data) = recv.published[m.Attributes["event"]].val
          /\ recv.published[m.Attributes["event"]].val \in {testMessage, testMessage2} =>
                m.Data = <<34>> \o recv.published[m.Attributes["event"]].val \o <<34>>
    /\ (recv.pc = "returned" /\ recv.kind = "ReceiveNr") =>
          \A eventName \in { recv.msgs[i].Attributes["event"] : i \in DOMAIN recv.msgs } :
              UnmarshalString(findEvent(recv.msgs, eventName).Data) =
                  recv.published[eventName].val

\* "ev1" was published with "test message" and then "ev2" with
\* "test message2"; ReceiveNr for 2 messages returned both, "ev2" first.
C23_Witness ==
    /\ recv.pc = "returned"
    /\ recv.kind = "ReceiveNr"
    /\ recv.nr = 2
    /\ recv.err = NoError
    /\ recv.published = SetKey(SetKey(EmptyMap, ev1, StringPayload(testMessage)),
                               ev2, StringPayload(testMessage2))
    /\ Len(recv.msgs) = 2
    /\ recv.msgs[1] = EventMessage(ev2, <<34>> \o testMessage2 \o <<34>>)
    /\ recv.msgs[2] = EventMessage(ev1, <<34>> \o testMessage \o <<34>>)

C31_TrimNeverOutOfRange ==
    /\ trim.pc # "panic"
    /\ trim.pc = "done" =>
          /\ Len(trim.res) <= trim.maxBytes
          /\ Len(trim.res) <= Len(trim.str)
          /\ trim.res = SubSeq(trim.str, 1, Len(trim.res))

\* C32: getNewMigrations returns an error if at a position within the
\* history the configured ID differs from the recorded one, or if the
\* history is longer than the configured list; otherwise it returns the
\* configured migrations from the position after the history on, in the
\* configured order.
C32_NewMigrations ==
    es.pc = "done" =>
        LET Migrations == es.Migrations
            records    == es.records
            differs    == \E i \in DOMAIN Migrations \cap DOMAIN records :
                              Migrations[i] # records[i]
        IN  /\ (differs \/ Len(records) > Len(Migrations)) <=> es.err # NoError
            /\ es.err = NoError =>
                  es.newMigrations =
                      SubSeq(Migrations, Len(records) + 1, Len(Migrations))

\* A history of two records that are the first two of three configured
\* migrations: the third is the new one.
C32_Witness ==
    /\ es.pc = "done"
    /\ es.Migrations = <<1, 2, 3>>
    /\ es.records = <<1, 2>>
    /\ es.err = NoError
    /\ es.newMigrations = <<3>>

\* C33: at every point of every sequence of Migrate runs on a list that
\* only grows at its end, the recorded history is a prefix of the
\* configured list, and no migration whose record is in the index is
\* executed again.
C33_HistoryIsPrefix ==
    es.pc # "" =>
        /\ Len(es.index) <= Len(es.Migrations)
        /\ es.index = SubSeq(es.Migrations, 1, Len(es.index))
        /\ ~es.again

\* The number of attempts after which the loop gives up, for the
\* connectMaxRetries of the config file.
AttemptsAllowed(n) == IF n = 0 THEN 5 ELSE IF n = -1 THEN 1 ELSE n

\* C34: the connect loop of Configure always returns: without error at the
\* first attempt that connects, and with an error, when every attempt
\* fails, after exactly connectMaxRetries attempts, 5 of them when
\* connectMaxRetries is not set and a single one when it is -1.
C34_ConnectTerminates ==
    /\ [](pg.pc \in {"testConnectivity", "returned"} /\ pg.file.dsn
          /\ pg.file.ConnectMaxRetries >= -1 =>
             /\ pg.attempts <= AttemptsAllowed(pg.file.ConnectMaxRetries)
             /\ pg.connected => (pg.pc = "returned" /\ pg.err = NoError)
             /\ (pg.pc = "returned" /\ pg.err = NoError) => pg.connected
             /\ (pg.pc = "returned" /\ pg.err # NoError) =>
                   pg.attempts = AttemptsAllowed(pg.file.ConnectMaxRetries))
    /\ <>(pg.pc = "returned")

\* Every attempt failed with connectMaxRetries not set: the loop gave up
\* after 5 attempts and 4 sleeps of the default 5 seconds.
C34_Witness ==
    /\ pg.pc = "returned"
    /\ pg.file.dsn
    /\ pg.file.ConnectMaxRetries = 0
    /\ pg.file.ConnectRetryDuration = 0
    /\ pg.err # NoError
    /\ ~pg.connected
    /\ pg.attempts = 5
    /\ pg.slept = 20

\* The calls made so far are the first services of the list the method
\* was called with, one call for each, in the order of registration; no
\* service is registered while the method runs.
InRegistrationOrder ==
    /\ Len(app.calls) <= Len(app.ranged)
    /\ app.pc = "range" => app.ranged = app.Services
    /\ \A k \in DOMAIN app.calls :
          app.calls[k] = [at |-> k, service |-> app.ranged[k]]

\* C35: Close calls Close on the registered services in the order of
\* registration, on each once; an error of a service is logged and Close
\* goes on; when Close returns it has called every service.
C35_CloseCallsEveryService ==
    app.method = "Close" =>
        /\ InRegistrationOrder
        /\ app.pc # "panicked"
        /\ app.pc = "idle" => Len(app.calls) = Len(app.ranged)
        /\ Len(app.logged) = Cardinality(app.errs)

\* Close has returned after the Close of the first of three services
\* returned an error.
C35_Witness ==
    /\ app.method = "Close"
    /\ app.pc = "idle"
    /\ Len(app.ranged) = 3
    /\ Len(app.calls) = 3
    /\ 1 \in app.errs

\* C36: Configure and Init call the services in the order of registration,
\* each once, and stop with a panic at the first that returns an error: no
\* service after it is called, and every one before it was called and
\* returned no error; without an error every service is called.
C36_StopsAtFirstError ==
    app.method \in {"Configure", "Init"} =>
        /\ InRegistrationOrder
        /\ app.pc = "idle" => (Len(app.calls) = Len(app.ranged) /\ app.errs = {})
        /\ app.errs # {} => (app.pc = "panicked" /\ app.errs = {Len(app.calls)})
        /\ app.pc = "panicked" => app.errs = {Len(app.calls)}

\* Init panicked at the second of three services.
C36_Witness ==
    /\ app.method = "Init"
    /\ app.pc = "panicked"
    /\ Len(app.ranged) = 3
    /\ Len(app.calls) = 2
    /\ app.errs = {2}

====
